---- MODULE Spec2Model ----
(***************************************************************************)
(* Model of the request-classification and phase-orchestration engine:     *)
(*   server.py          the session map and the phase tools                *)
(*   phases/phase0.py   RequestAnalyzer                                    *)
(*   phases/phase1_5.py EnvironmentChecker and its TTL cache               *)
(*   phases/phase3.py   Clarifier                                          *)
(* Time is counted in minutes.  Phase numbers are stored times ten, so     *)
(* that phase 1.5 is the integer 15.  Execution modes are written solo     *)
(* (source: "단독"), multi ("다중") and unavailable ("불가").              *)
(***************************************************************************)
EXTENDS Integers, Sequences, FiniteSets, TLC

VARIABLES
    now,        \* datetime.now(), in minutes
    api_keys,   \* the API-key environment variables that are set
    sessions,   \* server.sessions: session id -> WorkflowState
    cache,      \* EnvironmentChecker._cache: session id -> result dict
    response,   \* the value returned by the last tool call
    served,     \* per session id, the last snapshot EnvironmentChecker returned
    dialog,     \* a clarification dialog driven through Clarifier
    call        \* a call of a pure function: its arguments and its result

vars == <<now, api_keys, sessions, cache, response, served, dialog, call>>

----------------------------------------------------------------------------
(* Bounds of the model *)

MaxClock == 31
MaxQuestions == 2
MaxApiCount == 6
MaxDialogSteps == 12
MaxTaskComplexity == 8
MaxParagraphs == 3
MaxSections == 4
MaxKeywords == 3

\* clock advances explored by the workflow and by the environment checker
ClockSteps == {30, 31}
EnvClockSteps == {1, 4}
MaxEnvClock == 11

\* explicit session ids a caller passes
SessionIds == {"s1"}

\* optional values: None is the empty sequence, Some(v) a one-element one
None == <<>>
Some(v) == <<v>>
IsNone(o) == o = <<>>
Present(o) == o # <<>>
Val(o) == o[1]

----------------------------------------------------------------------------
(* models.py: scores *)

\* ClarityScore.total_score
ClarityTotal(c) ==
    (IF c.specific_situation THEN 1 ELSE 0) + (IF c.purpose_stated THEN 1 ELSE 0)
  + (IF c.target_specified THEN 1 ELSE 0) + (IF c.background_knowledge THEN 1 ELSE 0)
  + (IF c.scope_defined THEN 1 ELSE 0)

IsClear_majority(c) == ClarityTotal(c) >= 3

\* ClarityScore.is_clear
IsClear(c) == ClarityTotal(c) >= 4

\* ComplexityScore.total_score
ComplexityTotal(x) ==
    x.creativity_needed + x.analysis_needed + x.integration_needed + x.critical_domain

\* ComplexityScore.is_complex
IsComplex(x) == ComplexityTotal(x) >= 4

ClarityScores ==
    [specific_situation : BOOLEAN, purpose_stated : BOOLEAN, target_specified : BOOLEAN,
     background_knowledge : BOOLEAN, scope_defined : BOOLEAN]

ComplexityScores ==
    [creativity_needed : 0..2, analysis_needed : 0..2,
     integration_needed : 0..1, critical_domain : 0..2]

----------------------------------------------------------------------------
(* phases/phase0.py: RequestAnalyzer.  A request text is represented by    *)
(* what the keyword and length heuristics of analyze_clarity and           *)
(* analyze_complexity find in it.                                          *)

analyze_clarity(req) == req.clarity

analyze_complexity(req) == req.complexity

calculate_confidence_x10_rising(clarity_score) ==
    LET total == ClarityTotal(clarity_score) IN
    IF total = 5 THEN 10
    ELSE IF total = 4 THEN 8
    ELSE 6

\* RequestAnalyzer.calculate_confidence, times ten
calculate_confidence_x10(clarity_score) ==
    LET total == ClarityTotal(clarity_score) IN
    IF total = 5 \/ total = 0 THEN 10
    ELSE IF total = 4 \/ total = 1 THEN 8
    ELSE 6

analyze_wrong_order(req, reclassify_mode) ==
    LET clarity_score == analyze_clarity(req)
        is_clear == IsClear(clarity_score)
        complexity_score == Some(analyze_complexity(req))
    IN [request_type |->
            IF IsComplex(Val(complexity_score)) THEN "Type 2"
            ELSE IF ~is_clear /\ ~reclassify_mode THEN "Type 3"
            ELSE "Type 1",
        clarity_score |-> clarity_score,
        complexity_score |-> complexity_score,
        confidence_x10 |-> calculate_confidence_x10(clarity_score)]

analyze_always_scoring(req, reclassify_mode) ==
    LET clarity_score == analyze_clarity(req)
        is_clear == IsClear(clarity_score)
        complexity_score == Some(analyze_complexity(req))
    IN [request_type |->
            IF ~is_clear /\ ~reclassify_mode THEN "Type 3"
            ELSE IF IsComplex(Val(complexity_score)) THEN "Type 2"
            ELSE "Type 1",
        clarity_score |-> clarity_score,
        complexity_score |-> complexity_score,
        confidence_x10 |-> calculate_confidence_x10(clarity_score)]

analyze(req, reclassify_mode) ==
    LET clarity_score == analyze_clarity(req)
        is_clear == IsClear(clarity_score)
        complexity_score ==
            IF is_clear \/ reclassify_mode THEN Some(analyze_complexity(req)) ELSE None
    IN [request_type |->
            IF ~is_clear /\ ~reclassify_mode THEN "Type 3"
            ELSE IF Present(complexity_score) /\ IsComplex(Val(complexity_score)) THEN "Type 2"
            ELSE "Type 1",
        clarity_score |-> clarity_score,
        complexity_score |-> complexity_score,
        confidence_x10 |-> calculate_confidence_x10(clarity_score)]

----------------------------------------------------------------------------
(* models.py: HierarchyStructure; phases/phase1.py: ExpertAssigner *)

LayerOrder == <<"Domain", "Subdomain", "Category", "Task">>

\* ExpertAssigner.detect_hierarchy: which layer vocabularies occur in the text
detect_hierarchy(req) == req.hierarchy

\* HierarchyStructure.get_active_layers
get_active_layers(hierarchy) == SelectSeq(LayerOrder, LAMBDA l : hierarchy[l])

determine_processing_mode(complexity_score, expert_count) ==
    IF complexity_score <= 3 \/ expert_count = 1 THEN "single" ELSE "collaborative"

ExpertName(layer) ==
    CASE layer = "Domain" -> "Domain Expert"
      [] layer = "Subdomain" -> "Subdomain Specialist"
      [] layer = "Category" -> "Category Expert"
      [] layer = "Task" -> "Task Specialist"

assign_experts_for_layers_only(hierarchy) ==
    LET active_layers == get_active_layers(hierarchy) IN
    [i \in 1..Len(active_layers) |->
        [name |-> ExpertName(active_layers[i]), layers |-> <<active_layers[i]>>]]

\* ExpertAssigner.assign_experts
assign_experts_for(hierarchy) ==
    LET active_layers == get_active_layers(hierarchy) IN
    IF active_layers = <<>>
    THEN << [name |-> "General Expert", layers |-> <<>>] >>
    ELSE [i \in 1..Len(active_layers) |->
            [name |-> ExpertName(active_layers[i]), layers |-> <<active_layers[i]>>]]

\* ExpertAssigner.assign
assign(req, complexity_score) ==
    LET hierarchy == detect_hierarchy(req)
        active_layer_count == Len(get_active_layers(hierarchy))
    IN [hierarchy |-> hierarchy,
        experts |-> assign_experts_for(hierarchy),
        processing_mode |-> determine_processing_mode(complexity_score, active_layer_count)]

----------------------------------------------------------------------------
(* phases/phase1_5.py: EnvironmentChecker *)

_cache_ttl == 5

ApiOrder == <<"claude", "gpt", "gemini", "grok">>

\* the fallback probe: is_mcp_environment is fixed to True in the source
_check_zen_mcp_disconnected == [connected |-> FALSE]

_check_zen_mcp == [connected |-> TRUE]

\* the list of backends whose key is set, in the order the source tests them
_count_available_apis(keys) == SelectSeq(ApiOrder, LAMBDA a : a \in keys)

_determine_execution_mode_ignoring_fallback(api_count, zen_mcp_status) ==
    IF api_count = 0
    THEN [phase2 |-> "solo", phase4 |-> "solo"]
    ELSE [phase2 |-> "multi", phase4 |-> "multi"]

_determine_execution_mode(api_count, zen_mcp_status) ==
    IF api_count = 0
    THEN IF zen_mcp_status.connected
         THEN [phase2 |-> "solo", phase4 |-> "solo"]
         ELSE [phase2 |-> "unavailable", phase4 |-> "unavailable"]
    ELSE IF 1 <= api_count /\ api_count <= 4
    THEN [phase2 |-> "multi", phase4 |-> "multi"]
    ELSE [phase2 |-> "multi", phase4 |-> "multi"]

\* _get_cached_result: the entry to serve (or None) and the cache afterwards
Without(c, sid) == [k \in (DOMAIN c) \ {sid} |-> c[k]]

_get_cached_result_inclusive(c, sid, t) ==
    IF sid \in DOMAIN c
    THEN IF t - c[sid].checked_at <= _cache_ttl
         THEN [result |-> Some(c[sid]), cache |-> c]
         ELSE [result |-> None, cache |-> Without(c, sid)]
    ELSE [result |-> None, cache |-> c]

_get_cached_result(c, sid, t) ==
    IF sid \in DOMAIN c
    THEN IF t - c[sid].checked_at < _cache_ttl
         THEN [result |-> Some(c[sid]), cache |-> c]
         ELSE [result |-> None, cache |-> Without(c, sid)]
    ELSE [result |-> None, cache |-> c]

\* _cache_result
_cache_result(c, sid, result) == [k \in (DOMAIN c) \cup {sid} |-> IF k = sid THEN result ELSE c[k]]

\* EnvironmentChecker.check_environment: the dict returned and the cache afterwards
EnvironmentChecker_check_environment_uncached(c, sid, t, keys) ==
    LET zen_mcp_status == _check_zen_mcp
        available_apis == _count_available_apis(keys)
        api_count == Len(available_apis)
        result == [zen_mcp_connected |-> zen_mcp_status.connected,
                   api_count |-> api_count,
                   available_apis |-> available_apis,
                   execution_mode |-> _determine_execution_mode(api_count, zen_mcp_status),
                   checked_at |-> t]
    IN [result |-> result, cache |-> _cache_result(c, sid, result), probed |-> TRUE,
        evicted |-> FALSE]

EnvironmentChecker_check_environment(c, sid, t, keys) ==
    LET cached == _get_cached_result(c, sid, t) IN
    IF Present(cached.result)
    THEN [result |-> Val(cached.result), cache |-> cached.cache, probed |-> FALSE,
          evicted |-> FALSE]
    ELSE LET zen_mcp_status == _check_zen_mcp
             available_apis == _count_available_apis(keys)
             api_count == Len(available_apis)
             result == [zen_mcp_connected |-> zen_mcp_status.connected,
                        api_count |-> api_count,
                        available_apis |-> available_apis,
                        execution_mode |-> _determine_execution_mode(api_count, zen_mcp_status),
                        checked_at |-> t]
         IN [result |-> result, cache |-> _cache_result(cached.cache, sid, result),
             probed |-> TRUE,
             evicted |-> sid \in DOMAIN c /\ sid \notin DOMAIN cached.cache]

----------------------------------------------------------------------------
(* models.py: WorkflowState, with the fields server.py reads and writes *)

timeout_minutes_default == 30

NewWorkflowState(req, phase0, t) ==
    [user_request |-> req,
     current_phase |-> 0,
     phase0_result |-> Some(phase0),
     phase1_result |-> None,
     phase1_5_result |-> None,
     phase2_result |-> None,
     phase3_result |-> None,
     phase4_result |-> None,
     phase5_result |-> None,
     phase7_result |-> None,
     all_questions |-> None,
     current_question_index |-> 0,
     collected_answers |-> None,
     waiting_for_answer |-> FALSE,
     started_at |-> t,
     timeout_minutes |-> timeout_minutes_default,
     updated_at |-> t]

\* WorkflowState.is_timeout
is_timeout(w, t) == t - w.started_at > w.timeout_minutes

\* WorkflowState.update_timestamp
update_timestamp(w, t) == [w EXCEPT !.updated_at = t]

----------------------------------------------------------------------------
(* server.py: the tools *)

NoCall == [op |-> "none", sid |-> "", error |-> "", status |-> ""]

Reply(op, sid, error, status) == [op |-> op, sid |-> sid, error |-> error, status |-> status]

\* check_timeout: the error to return, "" standing for None
check_timeout_never_expiring(sid) ==
    IF sid \notin DOMAIN sessions THEN "Session not found" ELSE ""

check_timeout(sid) ==
    IF sid \notin DOMAIN sessions THEN "Session not found"
    ELSE IF is_timeout(sessions[sid], now) THEN "Session timeout"
    ELSE ""

\* the id analyze_request makes up when the caller passes none
AutoId(t) == "session_" \o ToString(t)

Put_replacing_all(f, k, v) == [x \in {k} |-> v]

Put(f, k, v) == [x \in (DOMAIN f) \cup {k} |-> IF x = k THEN v ELSE f[x]]

\* a tool call that returns an error and writes nothing
Fail(op, sid, error) ==
    /\ response' = Reply(op, sid, error, "error")
    /\ UNCHANGED <<sessions, cache>>

\* a tool call that stores workflow state w under sid
Store(op, sid, w, status) ==
    /\ sessions' = [sessions EXCEPT ![sid] = w]
    /\ response' = Reply(op, sid, "", status)

Frame == UNCHANGED <<now, api_keys, served, dialog, call>>

analyze_request_updating(user_request, session_id) ==
    LET result == analyze(user_request, FALSE)
        sid == IF IsNone(session_id) THEN AutoId(now) ELSE Val(session_id)
    IN /\ sessions' = Put(sessions, sid,
                          IF sid \in DOMAIN sessions
                          THEN update_timestamp([sessions[sid] EXCEPT
                                                   !.user_request = user_request,
                                                   !.phase0_result = Some(result),
                                                   !.current_phase = 0], now)
                          ELSE NewWorkflowState(user_request, result, now))
       /\ response' = Reply("analyze_request", sid, "", result.request_type)
       /\ UNCHANGED cache
       /\ Frame

analyze_request(user_request, session_id) ==
    LET result == analyze(user_request, FALSE)
        sid == IF IsNone(session_id) THEN AutoId(now) ELSE Val(session_id)
    IN /\ sessions' = Put(sessions, sid, NewWorkflowState(user_request, result, now))
       /\ response' = Reply("analyze_request", sid, "", result.request_type)
       /\ UNCHANGED cache
       /\ Frame

assign_experts(sid) ==
    /\ Frame
    /\ LET timeout_result == check_timeout(sid) IN
       IF timeout_result # "" THEN Fail("assign_experts", sid, timeout_result)
       ELSE LET workflow == sessions[sid] IN
            IF IsNone(workflow.phase0_result)
            THEN Fail("assign_experts", sid, "Phase 0 not completed")
            ELSE IF workflow.waiting_for_answer
            THEN Fail("assign_experts", sid, "Clarification questions are still pending")
            ELSE LET p0 == Val(workflow.phase0_result)
                     complexity == IF Present(p0.complexity_score)
                                   THEN ComplexityTotal(Val(p0.complexity_score)) ELSE 0
                     result == assign(workflow.user_request, complexity)
                 IN /\ Store("assign_experts", sid,
                             update_timestamp([workflow EXCEPT !.phase1_result = Some(result),
                                                               !.current_phase = 10], now),
                             "ok")
                    /\ UNCHANGED cache

check_environment(sid) ==
    /\ Frame
    /\ LET timeout_result == check_timeout(sid) IN
       IF timeout_result # ""
       THEN Fail("check_environment", sid, timeout_result)
       ELSE LET workflow == sessions[sid] IN
            IF IsNone(workflow.phase1_result)
            THEN Fail("check_environment", sid, "Phase 1 not completed")
            ELSE LET r == EnvironmentChecker_check_environment(cache, sid, now, api_keys)
                     request_type == IF Present(workflow.phase0_result)
                                     THEN Val(workflow.phase0_result).request_type
                                     ELSE "Type 2"
                     next_phase == IF request_type = "Type 3"
                                   THEN "clarify_user_intent" ELSE "gather_information"
                 IN /\ cache' = r.cache
                    /\ Store("check_environment", sid,
                             update_timestamp([workflow EXCEPT !.phase1_5_result = Some(r.result),
                                                               !.current_phase = 15], now),
                             next_phase)

gather_information_resetting(sid) ==
    /\ Frame
    /\ LET timeout_result == check_timeout(sid) IN
       IF timeout_result # "" THEN Fail("gather_information", sid, timeout_result)
       ELSE LET workflow == sessions[sid] IN
            IF IsNone(workflow.phase1_result)
            THEN Fail("gather_information", sid, "Phase 1 not completed")
            ELSE LET env == workflow.phase1_5_result
                     execution_mode == IF Present(env) THEN Val(env).execution_mode.phase2
                                       ELSE "solo"
                     llms_used == IF Present(env) THEN Val(env).available_apis ELSE <<>>
                     result == [execution_mode |-> execution_mode, llms_used |-> llms_used]
                 IN /\ Store("gather_information", sid,
                             update_timestamp([workflow EXCEPT !.phase2_result = Some(result),
                                                               !.phase4_result = None,
                                                               !.current_phase = 20], now),
                             execution_mode)
                    /\ UNCHANGED cache

gather_information(sid) ==
    /\ Frame
    /\ LET timeout_result == check_timeout(sid) IN
       IF timeout_result # "" THEN Fail("gather_information", sid, timeout_result)
       ELSE LET workflow == sessions[sid] IN
            IF IsNone(workflow.phase1_result)
            THEN Fail("gather_information", sid, "Phase 1 not completed")
            ELSE LET env == workflow.phase1_5_result
                     execution_mode == IF Present(env) THEN Val(env).execution_mode.phase2
                                       ELSE "solo"
                     llms_used == IF Present(env) THEN Val(env).available_apis ELSE <<>>
                     result == [execution_mode |-> execution_mode, llms_used |-> llms_used]
                 IN /\ Store("gather_information", sid,
                             update_timestamp([workflow EXCEPT !.phase2_result = Some(result),
                                                               !.current_phase = 20], now),
                             execution_mode)
                    /\ UNCHANGED cache

\* the categories of the questions Clarifier.generate_questions may return
QuestionCatalogue == <<"Goal", "Scope", "Constraints", "Deliverables",
                       "Target", "Context", "Priority", "Schedule">>

\* Clarifier.generate_questions: n questions, and whether any is needed
generate_questions(n) ==
    [questions |-> SubSeq(QuestionCatalogue, 1, n), clarification_needed |-> n > 0]

\* the part of clarify_user_intent after the question list is in place
ServeQuestion_skipping(sid, w) ==
    IF w.current_question_index >= Len(Val(w.all_questions))
    THEN Store("clarify_user_intent", sid,
               [w EXCEPT !.waiting_for_answer = FALSE, !.current_phase = 30],
               "all_questions_answered")
    ELSE Store("clarify_user_intent", sid,
               [w EXCEPT !.current_question_index = @ + 1], "waiting_for_answer")

ServeQuestion(sid, w) ==
    IF w.current_question_index >= Len(Val(w.all_questions))
    THEN Store("clarify_user_intent", sid,
               [w EXCEPT !.waiting_for_answer = FALSE, !.current_phase = 30],
               "all_questions_answered")
    ELSE Store("clarify_user_intent", sid, w, "waiting_for_answer")

clarify_user_intent(sid, n) ==
    /\ Frame
    /\ UNCHANGED cache
    /\ LET timeout_result == check_timeout(sid) IN
       IF timeout_result # ""
       THEN response' = Reply("clarify_user_intent", sid, timeout_result, "error")
            /\ UNCHANGED sessions
       ELSE LET workflow == sessions[sid] IN
            IF IsNone(workflow.phase0_result)
            THEN response' = Reply("clarify_user_intent", sid, "Phase 0 not completed", "error")
                 /\ UNCHANGED sessions
            ELSE IF IsNone(workflow.all_questions) \/ workflow.all_questions = Some(<<>>)
            THEN LET result == generate_questions(n) IN
                 IF ~result.clarification_needed
                 THEN response' = Reply("clarify_user_intent", sid, "", "no_clarification_needed")
                      /\ UNCHANGED sessions
                 ELSE ServeQuestion(sid,
                        update_timestamp([workflow EXCEPT
                            !.all_questions = Some(result.questions),
                            !.current_question_index = 0,
                            !.collected_answers = Some(<<>>),
                            !.waiting_for_answer = TRUE], now))
            ELSE ServeQuestion(sid, workflow)

\* an answer text, represented by its length and its length once stripped
Answers == { [length |-> 2, stripped |-> 2],
             [length |-> 14, stripped |-> 3] }

answer_clarification_question_ignoring(sid, answer) ==
    /\ Frame
    /\ UNCHANGED cache
    /\ LET timeout_result == check_timeout(sid) IN
       IF timeout_result # ""
       THEN response' = Reply("answer_clarification_question", sid, timeout_result, "error")
            /\ UNCHANGED sessions
       ELSE LET workflow == sessions[sid] IN
            IF ~workflow.waiting_for_answer
            THEN response' = Reply("answer_clarification_question", sid, "", "completed")
                 /\ UNCHANGED sessions
            ELSE IF workflow.current_question_index >= Len(Val(workflow.all_questions))
            THEN response' = Reply("answer_clarification_question", sid,
                                   "All questions have been answered", "error")
                 /\ UNCHANGED sessions
            ELSE LET all_questions == Val(workflow.all_questions)
                     current_question == all_questions[workflow.current_question_index + 1]
                     resp == [question_id |-> current_question,
                              answer |-> answer,
                              satisfied |-> answer.length > 10]
                     answers == Append(Val(workflow.collected_answers), resp)
                     w1 == update_timestamp([workflow EXCEPT
                              !.collected_answers = Some(answers),
                              !.current_question_index = @ + 1], now)
                 IN IF w1.current_question_index >= Len(all_questions)
                    THEN Store("answer_clarification_question", sid,
                               [w1 EXCEPT !.waiting_for_answer = FALSE,
                                          !.current_phase = 30,
                                          !.phase3_result =
                                              Some([questions |-> all_questions,
                                                    responses |-> answers,
                                                    clarification_needed |-> FALSE])],
                               "completed")
                    ELSE Store("answer_clarification_question", sid, w1, "next_question")

answer_clarification_question(sid, answer) ==
    /\ Frame
    /\ UNCHANGED cache
    /\ LET timeout_result == check_timeout(sid) IN
       IF timeout_result # ""
       THEN response' = Reply("answer_clarification_question", sid, timeout_result, "error")
            /\ UNCHANGED sessions
       ELSE LET workflow == sessions[sid] IN
            IF ~workflow.waiting_for_answer
            THEN response' = Reply("answer_clarification_question", sid,
                                   "No question is waiting for an answer", "error")
                 /\ UNCHANGED sessions
            ELSE IF workflow.current_question_index >= Len(Val(workflow.all_questions))
            THEN response' = Reply("answer_clarification_question", sid,
                                   "All questions have been answered", "error")
                 /\ UNCHANGED sessions
            ELSE LET all_questions == Val(workflow.all_questions)
                     current_question == all_questions[workflow.current_question_index + 1]
                     resp == [question_id |-> current_question,
                              answer |-> answer,
                              satisfied |-> answer.length > 10]
                     answers == Append(Val(workflow.collected_answers), resp)
                     w1 == update_timestamp([workflow EXCEPT
                              !.collected_answers = Some(answers),
                              !.current_question_index = @ + 1], now)
                 IN IF w1.current_question_index >= Len(all_questions)
                    THEN Store("answer_clarification_question", sid,
                               [w1 EXCEPT !.waiting_for_answer = FALSE,
                                          !.current_phase = 30,
                                          !.phase3_result =
                                              Some([questions |-> all_questions,
                                                    responses |-> answers,
                                                    clarification_needed |-> FALSE])],
                               "completed")
                    ELSE Store("answer_clarification_question", sid, w1, "next_question")

create_design(sid) ==
    /\ Frame
    /\ LET timeout_result == check_timeout(sid) IN
       IF timeout_result # "" THEN Fail("create_design", sid, timeout_result)
       ELSE LET workflow == sessions[sid] IN
            IF IsNone(workflow.phase0_result) \/ IsNone(workflow.phase1_result)
            THEN Fail("create_design", sid, "Previous phases not completed")
            ELSE LET env == workflow.phase1_5_result
                     execution_mode == IF Present(env) THEN Val(env).execution_mode.phase4
                                       ELSE "solo"
                     result == [execution_mode |-> execution_mode]
                 IN /\ Store("create_design", sid,
                             update_timestamp([workflow EXCEPT !.phase4_result = Some(result),
                                                               !.current_phase = 40], now),
                             execution_mode)
                    /\ UNCHANGED cache

select_llm_unguarded(sid) ==
    /\ Frame
    /\ LET timeout_result == check_timeout(sid) IN
       IF timeout_result # "" THEN Fail("select_llm", sid, timeout_result)
       ELSE LET workflow == sessions[sid]
                p0 == workflow.phase0_result
                complexity == IF Present(p0) /\ Present(Val(p0).complexity_score)
                              THEN ComplexityTotal(Val(Val(p0).complexity_score)) ELSE 5
                result == [complexity_score |-> complexity]
            IN /\ Store("select_llm", sid,
                        update_timestamp([workflow EXCEPT !.phase5_result = Some(result),
                                                          !.current_phase = 50], now),
                        "ok")
               /\ UNCHANGED cache

select_llm(sid) ==
    /\ Frame
    /\ LET timeout_result == check_timeout(sid) IN
       IF timeout_result # "" THEN Fail("select_llm", sid, timeout_result)
       ELSE LET workflow == sessions[sid] IN
            IF IsNone(workflow.phase4_result)
            THEN Fail("select_llm", sid, "Phase 4 not completed")
            ELSE LET p0 == workflow.phase0_result
                     complexity == IF Present(p0) /\ Present(Val(p0).complexity_score)
                                   THEN ComplexityTotal(Val(Val(p0).complexity_score)) ELSE 5
                     result == [complexity_score |-> complexity]
                 IN /\ Store("select_llm", sid,
                             update_timestamp([workflow EXCEPT !.phase5_result = Some(result),
                                                               !.current_phase = 50], now),
                             "ok")
                    /\ UNCHANGED cache

\* the models LLMClient.generate accepts, and one it raises ValueError for
LlmChoices == {"claude", "llama"}

execute_task_counting_runs(sid, selected_llm) ==
    /\ Frame
    /\ LET timeout_result == check_timeout(sid) IN
       IF timeout_result # "" THEN Fail("execute_task", sid, timeout_result)
       ELSE LET workflow == sessions[sid] IN
            IF IsNone(workflow.phase4_result)
            THEN Fail("execute_task", sid, "Design not created")
            ELSE IF selected_llm \notin {"claude", "gpt", "gemini"}
            THEN /\ response' = Reply("execute_task", sid, "ValueError", "raised")
                 /\ UNCHANGED <<sessions, cache>>
            ELSE /\ Store("execute_task", sid,
                          update_timestamp([workflow EXCEPT !.current_phase =
                                                 IF workflow.current_phase >= 60
                                                 THEN workflow.current_phase + 1 ELSE 60],
                                            now),
                          "ok")
                 /\ UNCHANGED cache

execute_task(sid, selected_llm) ==
    /\ Frame
    /\ LET timeout_result == check_timeout(sid) IN
       IF timeout_result # "" THEN Fail("execute_task", sid, timeout_result)
       ELSE LET workflow == sessions[sid] IN
            IF IsNone(workflow.phase4_result)
            THEN Fail("execute_task", sid, "Design not created")
            ELSE IF selected_llm \notin {"claude", "gpt", "gemini"}
            THEN /\ response' = Reply("execute_task", sid, "ValueError", "raised")
                 /\ UNCHANGED <<sessions, cache>>
            ELSE /\ Store("execute_task", sid,
                          update_timestamp([workflow EXCEPT !.current_phase = 60], now),
                          "ok")
                 /\ UNCHANGED cache

get_workflow_status(sid) ==
    /\ Frame
    /\ UNCHANGED <<sessions, cache>>
    /\ IF sid \notin DOMAIN sessions
       THEN response' = Reply("get_workflow_status", sid, "Session not found", "error")
       ELSE LET workflow == sessions[sid] IN
            response' = [op |-> "get_workflow_status", sid |-> sid, error |-> "",
                         status |-> "status",
                         current_phase |-> workflow.current_phase,
                         is_timeout |-> is_timeout(workflow, now),
                         elapsed_minutes |-> now - workflow.started_at,
                         waiting_for_answer |-> workflow.waiting_for_answer]

----------------------------------------------------------------------------
(* The environment: the clock and the configured API keys *)

AdvanceClock(d, limit) ==
    /\ now + d <= limit
    /\ now' = now + d
    /\ response' = NoCall
    /\ UNCHANGED <<api_keys, sessions, cache, served, dialog, call>>

\* the key configurations explored
KeySets == { {}, {"claude", "gpt"} }

SetEnvironment(keys) ==
    /\ keys # api_keys
    /\ api_keys' = keys
    /\ response' = NoCall
    /\ UNCHANGED <<now, sessions, cache, served, dialog, call>>

----------------------------------------------------------------------------
(* The workflow server.  The API keys are those of the environment the     *)
(* server was started in.                                                  *)

EmptyMap == [k \in {} |-> 0]

NoDialog == [pc |-> "unused"]

NoFunctionCall == [fn |-> "none"]

\* request texts: "hi"; a clear simple request; a clear complex one
Requests ==
    { [clarity |-> [specific_situation |-> FALSE, purpose_stated |-> FALSE,
                    target_specified |-> FALSE, background_knowledge |-> FALSE,
                    scope_defined |-> FALSE],
       complexity |-> [creativity_needed |-> 0, analysis_needed |-> 0,
                       integration_needed |-> 0, critical_domain |-> 0],
       hierarchy |-> [Domain |-> FALSE, Subdomain |-> FALSE, Category |-> FALSE, Task |-> FALSE]],
      [clarity |-> [specific_situation |-> TRUE, purpose_stated |-> TRUE,
                    target_specified |-> TRUE, background_knowledge |-> TRUE,
                    scope_defined |-> FALSE],
       complexity |-> [creativity_needed |-> 0, analysis_needed |-> 1,
                       integration_needed |-> 0, critical_domain |-> 0],
       hierarchy |-> [Domain |-> FALSE, Subdomain |-> FALSE, Category |-> FALSE, Task |-> TRUE]],
      [clarity |-> [specific_situation |-> TRUE, purpose_stated |-> TRUE,
                    target_specified |-> TRUE, background_knowledge |-> TRUE,
                    scope_defined |-> TRUE],
       complexity |-> [creativity_needed |-> 2, analysis_needed |-> 2,
                       integration_needed |-> 1, critical_domain |-> 0],
       hierarchy |-> [Domain |-> TRUE, Subdomain |-> FALSE, Category |-> FALSE, Task |-> TRUE]] }

\* the session ids a caller may name
CallIds == SessionIds

Init ==
    /\ now = 0
    /\ api_keys \in KeySets
    /\ sessions = EmptyMap
    /\ cache = EmptyMap
    /\ response = NoCall
    /\ served = EmptyMap
    /\ dialog = NoDialog
    /\ call = NoFunctionCall

Next ==
    \/ \E req \in Requests, sid \in CallIds : analyze_request(req, Some(sid))
    \/ \E sid \in CallIds : assign_experts(sid)
    \/ \E sid \in CallIds : check_environment(sid)
    \/ \E sid \in CallIds : gather_information(sid)
    \/ \E sid \in CallIds, n \in 0..MaxQuestions : clarify_user_intent(sid, n)
    \/ \E sid \in CallIds, answer \in Answers : answer_clarification_question(sid, answer)
    \/ \E sid \in CallIds : create_design(sid)
    \/ \E sid \in CallIds : select_llm(sid)
    \/ \E sid \in CallIds, llm \in LlmChoices : execute_task(sid, llm)
    \/ \E sid \in CallIds : get_workflow_status(sid)
    \/ \E d \in ClockSteps : AdvanceClock(d, MaxClock)

Spec == Init /\ [][Next]_vars

----------------------------------------------------------------------------
(* EnvironmentChecker on its own: calls for two session ids, the clock and *)
(* the configured keys changing between them.  served keeps, per session   *)
(* id, what the previous call returned and when.                           *)

EnvSessionIds == {"s1", "s2"}

EnvCheck(sid) ==
    LET r == EnvironmentChecker_check_environment(cache, sid, now, api_keys) IN
    /\ cache' = r.cache
    /\ response' = [op |-> "EnvironmentChecker.check_environment", sid |-> sid,
                    error |-> "", status |-> "ok",
                    result |-> r.result, probed |-> r.probed, evicted |-> r.evicted]
    /\ served' = Put(served, sid, [snapshot |-> r.result, at |-> now])
    /\ UNCHANGED <<now, api_keys, sessions, dialog, call>>

InitEnv ==
    /\ now = 0
    /\ api_keys \in KeySets
    /\ sessions = EmptyMap
    /\ cache = EmptyMap
    /\ response = NoCall
    /\ served = EmptyMap
    /\ dialog = NoDialog
    /\ call = NoFunctionCall

NextEnv ==
    \/ \E sid \in EnvSessionIds : EnvCheck(sid)
    \/ \E d \in EnvClockSteps : AdvanceClock(d, MaxEnvClock)
    \/ \E keys \in KeySets : SetEnvironment(keys)

SpecEnv == InitEnv /\ [][NextEnv]_vars

----------------------------------------------------------------------------
(* The server called repeatedly by one caller: time passes between two    *)
(* calls while the caller still holds what the last call returned.  The   *)
(* clock moves in steps that stay within the cache TTL once and pass it   *)
(* the second time; the session timeout is out of reach.                  *)

FlowClockSteps == {3}
MaxFlowClock == 6

PassTime(d, limit) ==
    /\ now + d <= limit
    /\ now' = now + d
    /\ UNCHANGED <<api_keys, sessions, cache, response, served, dialog, call>>

InitFlow ==
    /\ now = 0
    /\ api_keys \in KeySets
    /\ sessions = EmptyMap
    /\ cache = EmptyMap
    /\ response = NoCall
    /\ served = EmptyMap
    /\ dialog = NoDialog
    /\ call = NoFunctionCall

NextFlow ==
    \/ \E req \in Requests, sid \in CallIds : analyze_request(req, Some(sid))
    \/ \E sid \in CallIds : assign_experts(sid)
    \/ \E sid \in CallIds : check_environment(sid)
    \/ \E sid \in CallIds : gather_information(sid)
    \/ \E sid \in CallIds : clarify_user_intent(sid, 1)
    \/ \E sid \in CallIds, answer \in Answers : answer_clarification_question(sid, answer)
    \/ \E sid \in CallIds : create_design(sid)
    \/ \E sid \in CallIds : select_llm(sid)
    \/ \E sid \in CallIds, llm \in LlmChoices : execute_task(sid, llm)
    \/ \E sid \in CallIds : get_workflow_status(sid)
    \/ \E d \in FlowClockSteps : PassTime(d, MaxFlowClock)

SpecFlow == InitFlow /\ [][NextFlow]_vars

----------------------------------------------------------------------------
(* The server with two sessions, their calls interleaved in any order.    *)
(* Session s2 goes through every tool; session s1 is taken as far as its  *)
(* environment check, so that it has a workflow state and a cached        *)
(* snapshot while the calls for s2 arrive, and the other way round.       *)

TwoSessionIds == {"s1", "s2"}

FullFlowIds == {"s2"}

\* the unclear request for s1 and the clear complex one for s2
RequestOf(sid) ==
    CHOOSE req \in Requests :
        IF sid = "s1" THEN ~IsClear(req.clarity) ELSE IsComplex(req.complexity)

InitSessions ==
    /\ now = 0
    /\ api_keys \in KeySets
    /\ sessions = EmptyMap
    /\ cache = EmptyMap
    /\ response = NoCall
    /\ served = EmptyMap
    /\ dialog = NoDialog
    /\ call = NoFunctionCall

NextSessions ==
    \/ \E sid \in TwoSessionIds : analyze_request(RequestOf(sid), Some(sid))
    \/ \E sid \in TwoSessionIds : assign_experts(sid)
    \/ \E sid \in TwoSessionIds : check_environment(sid)
    \/ \E sid \in FullFlowIds : gather_information(sid)
    \/ \E sid \in FullFlowIds : clarify_user_intent(sid, 1)
    \/ \E sid \in FullFlowIds, answer \in Answers : answer_clarification_question(sid, answer)
    \/ \E sid \in FullFlowIds : create_design(sid)
    \/ \E sid \in FullFlowIds : select_llm(sid)
    \/ \E sid \in FullFlowIds : execute_task(sid, "claude")
    \/ \E sid \in TwoSessionIds : get_workflow_status(sid)

SpecSessions == InitSessions /\ [][NextSessions]_vars

----------------------------------------------------------------------------
(* The three coroutine tools on the event loop.  A handler runs from its   *)
(* entry to its await and from there to its return; call holds the handler *)
(* the loop is running and the handlers suspended at their await.  Another *)
(* handler is entered only while the loop runs none.  Time passes also     *)
(* while a handler is at its await.                                        *)

\* whether the coroutine a tool awaits yields to the event loop.  Every
\* await in the program is of a coroutine of the program
\* (InformationGatherer.gather_information, DesignGenerator.create_design,
\* LLMClient.generate) and none of these awaits anything but another of
\* them: they return, or raise, without yielding.
AwaitSuspends_yielding == TRUE

AwaitSuspends == FALSE

IdleLoop == [fn |-> "event_loop", running |-> None, suspended |-> {}]

LoopIdle == IsNone(call.running)

\* the handler reached its await, holding what it read on the way
AtAwait(c) ==
    IF AwaitSuspends
    THEN call' = [call EXCEPT !.suspended = call.suspended \cup {c}]
    ELSE call' = [call EXCEPT !.running = Some(c)]

AsyncFrame == UNCHANGED <<now, api_keys, served, dialog>>

gather_information_enter(sid) ==
    /\ LoopIdle
    /\ AsyncFrame
    /\ LET timeout_result == check_timeout(sid) IN
       IF timeout_result # ""
       THEN Fail("gather_information", sid, timeout_result) /\ UNCHANGED call
       ELSE LET workflow == sessions[sid] IN
            IF IsNone(workflow.phase1_result)
            THEN Fail("gather_information", sid, "Phase 1 not completed") /\ UNCHANGED call
            ELSE LET env == workflow.phase1_5_result
                     execution_mode == IF Present(env) THEN Val(env).execution_mode.phase2
                                       ELSE "solo"
                     llms_used == IF Present(env) THEN Val(env).available_apis ELSE <<>>
                 IN /\ AtAwait([op |-> "gather_information", sid |-> sid,
                                 execution_mode |-> execution_mode,
                                 llms_used |-> llms_used, selected_llm |-> "",
                                 replaced |-> FALSE])
                    /\ UNCHANGED <<sessions, cache, response>>

create_design_enter(sid) ==
    /\ LoopIdle
    /\ AsyncFrame
    /\ LET timeout_result == check_timeout(sid) IN
       IF timeout_result # ""
       THEN Fail("create_design", sid, timeout_result) /\ UNCHANGED call
       ELSE LET workflow == sessions[sid] IN
            IF IsNone(workflow.phase0_result) \/ IsNone(workflow.phase1_result)
            THEN Fail("create_design", sid, "Previous phases not completed") /\ UNCHANGED call
            ELSE LET env == workflow.phase1_5_result
                     execution_mode == IF Present(env) THEN Val(env).execution_mode.phase4
                                       ELSE "solo"
                 IN /\ AtAwait([op |-> "create_design", sid |-> sid,
                                 execution_mode |-> execution_mode,
                                 llms_used |-> <<>>, selected_llm |-> "",
                                 replaced |-> FALSE])
                    /\ UNCHANGED <<sessions, cache, response>>

execute_task_enter(sid, selected_llm) ==
    /\ LoopIdle
    /\ AsyncFrame
    /\ LET timeout_result == check_timeout(sid) IN
       IF timeout_result # ""
       THEN Fail("execute_task", sid, timeout_result) /\ UNCHANGED call
       ELSE LET workflow == sessions[sid] IN
            IF IsNone(workflow.phase4_result)
            THEN Fail("execute_task", sid, "Design not created") /\ UNCHANGED call
            ELSE /\ AtAwait([op |-> "execute_task", sid |-> sid,
                              execution_mode |-> "", llms_used |-> <<>>,
                              selected_llm |-> selected_llm, replaced |-> FALSE])
                 /\ UNCHANGED <<sessions, cache, response>>

\* analyze_request on the loop.  A handler suspended at its await holds the
\* WorkflowState object it read at entry; once analyze_request has stored a
\* new object under the id, that handler writes to the object replaced.
analyze_request_on_loop(user_request, session_id) ==
    LET result == analyze(user_request, FALSE)
        sid == IF IsNone(session_id) THEN AutoId(now) ELSE Val(session_id)
    IN /\ LoopIdle
       /\ sessions' = Put(sessions, sid, NewWorkflowState(user_request, result, now))
       /\ response' = Reply("analyze_request", sid, "", result.request_type)
       /\ call' = [call EXCEPT !.suspended =
                      { IF c.sid = sid THEN [c EXCEPT !.replaced = TRUE] ELSE c :
                          c \in call.suspended }]
       /\ UNCHANGED cache
       /\ AsyncFrame

\* the writes of a handler after its await: to the session stored under
\* the id when that is still the object the handler holds
WriteBack_dropping(c, w, status) ==
    /\ response' = Reply(c.op, c.sid, "", status)
    /\ sessions' = IF c.op = "create_design" THEN sessions
                   ELSE [sessions EXCEPT ![c.sid] = w]

WriteBack(c, w, status) ==
    /\ response' = Reply(c.op, c.sid, "", status)
    /\ sessions' = IF c.replaced THEN sessions ELSE [sessions EXCEPT ![c.sid] = w]

\* what a handler does from its await to its return
AfterAwait(c, workflow) ==
    CASE c.op = "gather_information" ->
           WriteBack(c,
                     update_timestamp([workflow EXCEPT
                                         !.phase2_result =
                                             Some([execution_mode |-> c.execution_mode,
                                                   llms_used |-> c.llms_used]),
                                         !.current_phase = 20], now),
                     c.execution_mode)
      [] c.op = "create_design" ->
           WriteBack(c,
                     update_timestamp([workflow EXCEPT
                                         !.phase4_result =
                                             Some([execution_mode |-> c.execution_mode]),
                                         !.current_phase = 40], now),
                     c.execution_mode)
      [] c.op = "execute_task" ->
           IF c.selected_llm \notin {"claude", "gpt", "gemini"}
           THEN /\ response' = Reply("execute_task", c.sid, "ValueError", "raised")
                /\ UNCHANGED sessions
           ELSE WriteBack(c, update_timestamp([workflow EXCEPT !.current_phase = 60], now),
                          "ok")

resume_checking_deadline(c) ==
    /\ \/ call.running = Some(c) /\ call' = [call EXCEPT !.running = None]
       \/ LoopIdle /\ c \in call.suspended
                   /\ call' = [call EXCEPT !.suspended = call.suspended \ {c}]
    /\ AsyncFrame
    /\ UNCHANGED cache
    /\ IF is_timeout(sessions[c.sid], now)
       THEN Fail(c.op, c.sid, "Session timeout")
       ELSE AfterAwait(c, sessions[c.sid])

\* the awaited coroutine returned (or raised): the handler runs to its return
resume(c) ==
    /\ \/ call.running = Some(c) /\ call' = [call EXCEPT !.running = None]
       \/ LoopIdle /\ c \in call.suspended
                   /\ call' = [call EXCEPT !.suspended = call.suspended \ {c}]
    /\ AsyncFrame
    /\ UNCHANGED cache
    /\ AfterAwait(c, sessions[c.sid])

InFlightCalls == call.suspended \cup { call.running[i] : i \in DOMAIN call.running }

InitAsync ==
    /\ now = 0
    /\ api_keys \in KeySets
    /\ sessions = EmptyMap
    /\ cache = EmptyMap
    /\ response = NoCall
    /\ served = EmptyMap
    /\ dialog = NoDialog
    /\ call = IdleLoop

NextAsync ==
    \/ \E req \in Requests, sid \in CallIds : analyze_request_on_loop(req, Some(sid))
    \/ \E sid \in CallIds : LoopIdle /\ assign_experts(sid)
    \/ \E sid \in CallIds : LoopIdle /\ check_environment(sid)
    \/ \E sid \in CallIds : gather_information_enter(sid)
    \/ \E sid \in CallIds : create_design_enter(sid)
    \/ \E sid \in CallIds : LoopIdle /\ select_llm(sid)
    \/ \E sid \in CallIds, llm \in LlmChoices : execute_task_enter(sid, llm)
    \/ \E c \in InFlightCalls : resume(c)
    \/ \E d \in ClockSteps : AdvanceClock(d, MaxClock)

SpecAsync == InitAsync /\ [][NextAsync]_vars

----------------------------------------------------------------------------
(* Callers that pass no session id.  The id analyze_request makes up is    *)
(* the time of the call to the second; calls at the same value of now      *)
(* stand for calls that fall into one second.                              *)

AutoClockSteps == {1}
MaxAutoClock == 1

\* the ids a caller can have been given
AutoIds == { AutoId(t) : t \in 0..MaxAutoClock }

InitAutoId ==
    /\ now = 0
    /\ api_keys \in KeySets
    /\ sessions = EmptyMap
    /\ cache = EmptyMap
    /\ response = NoCall
    /\ served = EmptyMap
    /\ dialog = NoDialog
    /\ call = NoFunctionCall

NextAutoId ==
    \/ \E req \in Requests : analyze_request(req, None)
    \/ \E sid \in AutoIds : assign_experts(sid)
    \/ \E sid \in AutoIds : check_environment(sid)
    \/ \E sid \in AutoIds : get_workflow_status(sid)
    \/ \E d \in AutoClockSteps : AdvanceClock(d, MaxAutoClock)

SpecAutoId == InitAutoId /\ [][NextAutoId]_vars

----------------------------------------------------------------------------
(* phases/phase3.py: Clarifier.  The areas are named in the source by      *)
(* Korean words, written here in romanised form.                           *)

MAX_ITERATIONS == 10

\* all_areas of _identify_missing_areas_from_phase2, in its order:
\* purpose, scope, constraints, deliverable, audience, background, priority, schedule
all_areas == <<"mokjeok", "beomwi", "jeyaksahang", "gidae_sanchulmul",
               "daesang_sayongja", "baegyeong_jeongbo", "useonsunwi", "iljeong">>

\* question_templates of _create_question_with_choices
question_templates(area) ==
    CASE area = "mokjeok"           -> [category |-> "Goal", priority |-> 10]
      [] area = "beomwi"            -> [category |-> "Scope", priority |-> 9]
      [] area = "jeyaksahang"       -> [category |-> "Constraints", priority |-> 8]
      [] area = "gidae_sanchulmul"  -> [category |-> "Deliverables", priority |-> 9]
      [] area = "daesang_sayongja"  -> [category |-> "Target", priority |-> 8]
      [] area = "baegyeong_jeongbo" -> [category |-> "Context", priority |-> 7]
      [] area = "useonsunwi"        -> [category |-> "Priority", priority |-> 7]
      [] area = "iljeong"           -> [category |-> "Schedule", priority |-> 6]

\* phase2_data is None, or the set of areas some key insight mentions
_identify_missing_areas_from_phase2(phase2_data, answered_categories) ==
    SelectSeq(all_areas,
              LAMBDA area : /\ area \notin answered_categories
                            /\ (IsNone(phase2_data) \/ area \notin Val(phase2_data)))

_create_question_with_choices(area, iteration) ==
    [area |-> area,
     category |-> question_templates(area).category,
     priority |-> question_templates(area).priority,
     iteration |-> iteration]

\* the categories of the answers given: question_id.split(":")[0]
AnsweredCategories(previous_answers) ==
    { previous_answers[i].question_id.category : i \in 1..Len(previous_answers) }

generate_next_question_uncapped(phase2_data, previous_answers, iteration) ==
    LET missing_areas == _identify_missing_areas_from_phase2(
                             phase2_data, AnsweredCategories(previous_answers))
    IN IF missing_areas = <<>> THEN None
       ELSE Some(_create_question_with_choices(missing_areas[1], iteration))

generate_next_question(phase2_data, previous_answers, iteration) ==
    IF iteration >= MAX_ITERATIONS THEN None
    ELSE LET missing_areas == _identify_missing_areas_from_phase2(
                                  phase2_data, AnsweredCategories(previous_answers))
         IN IF missing_areas = <<>> THEN None
            ELSE Some(_create_question_with_choices(missing_areas[1], iteration))

\* question_id is the text "<category>:<iteration>", kept as its two parts
process_answer(question, user_answer, iteration) ==
    [question_id |-> [category |-> question.category, iteration |-> iteration],
     answer |-> user_answer,
     satisfied |-> user_answer.stripped > 5]

SatisfiedCount(collected_answers) ==
    Cardinality({ i \in 1..Len(collected_answers) : collected_answers[i].satisfied })

\* satisfied_count / len >= 0.8, in whole numbers
check_clarification_complete_late(collected_answers, iteration) ==
    IF Len(collected_answers) < 3 THEN FALSE
    ELSE IF 5 * SatisfiedCount(collected_answers) >= 4 * Len(collected_answers) THEN TRUE
    ELSE IF iteration >= MAX_ITERATIONS THEN TRUE
    ELSE FALSE

check_clarification_complete(collected_answers, iteration) ==
    IF Len(collected_answers) < 3 THEN FALSE
    ELSE IF 5 * SatisfiedCount(collected_answers) >= 4 * Len(collected_answers) THEN TRUE
    ELSE IF iteration >= MAX_ITERATIONS - 1 THEN TRUE
    ELSE FALSE

----------------------------------------------------------------------------
(* A clarification dialog: a caller asks for the next question with        *)
(* iteration 0, 1, 2, ..., answers each question it is given and then asks *)
(* whether the dialog is complete.                                         *)

DialogAnswers == { [length |-> 2, stripped |-> 2], [length |-> 8, stripped |-> 8] }

Phase2Contexts ==
    { None, Some({}), Some({"mokjeok", "beomwi"}),
      Some({ all_areas[i] : i \in 1..Len(all_areas) }) }

InitDialog ==
    /\ now = 0
    /\ api_keys = {}
    /\ sessions = EmptyMap
    /\ cache = EmptyMap
    /\ response = NoCall
    /\ served = EmptyMap
    /\ call = NoFunctionCall
    /\ \E ctx \in Phase2Contexts :
          dialog = [pc |-> "ask", phase2_data |-> ctx, iteration |-> 0,
                    previous_answers |-> <<>>, question |-> None,
                    issued |-> 0, reports |-> <<>>]

DialogFrame == UNCHANGED <<now, api_keys, sessions, cache, response, served, call>>

\* the caller asks for the question of this iteration
AskNextQuestion ==
    /\ dialog.pc = "ask"
    /\ dialog.iteration <= MaxDialogSteps
    /\ LET q == generate_next_question(dialog.phase2_data, dialog.previous_answers,
                                       dialog.iteration)
       IN dialog' = [dialog EXCEPT !.question = q,
                                   !.issued = IF Present(q) THEN @ + 1 ELSE @,
                                   !.pc = IF Present(q) THEN "answer" ELSE "asked"]
    /\ DialogFrame

\* the caller answers the question and asks whether the dialog is complete
AnswerQuestion(user_answer) ==
    /\ dialog.pc = "answer"
    /\ LET r == process_answer(Val(dialog.question), user_answer, dialog.iteration)
           answers == Append(dialog.previous_answers, r)
           done == check_clarification_complete(answers, dialog.iteration)
       IN dialog' = [dialog EXCEPT
                        !.previous_answers = answers,
                        !.reports = Append(@, [iteration |-> dialog.iteration,
                                               answers |-> Len(answers),
                                               satisfied |-> SatisfiedCount(answers),
                                               complete |-> done]),
                        !.pc = "asked"]
    /\ DialogFrame

\* the caller moves on to the next iteration
NextIteration ==
    /\ dialog.pc = "asked"
    /\ dialog.iteration < MaxDialogSteps
    /\ dialog' = [dialog EXCEPT !.iteration = @ + 1, !.pc = "ask"]
    /\ DialogFrame

NextDialog ==
    \/ AskNextQuestion
    \/ \E a \in DialogAnswers : AnswerQuestion(a)
    \/ NextIteration

SpecDialog == InitDialog /\ [][NextDialog]_vars

----------------------------------------------------------------------------
(* phases/phase5.py: LLMSelector.  Scores and confidences are integers:    *)
(* a confidence is stored times ten.                                       *)

\* AVAILABLE_MODELS, in the order the dict declares them
AVAILABLE_MODELS ==
    << [model_name |-> "claude-3-5-sonnet-20241022", provider |-> "anthropic",
        strengths |-> {"reasoning", "code", "analysis", "long_context"},
        cost_tier |-> "high"],
       [model_name |-> "gpt-4-turbo", provider |-> "openai",
        strengths |-> {"creative", "general", "multimodal"},
        cost_tier |-> "high"],
       [model_name |-> "gpt-3.5-turbo", provider |-> "openai",
        strengths |-> {"speed", "general"},
        cost_tier |-> "low"],
       [model_name |-> "gemini-1.5-pro", provider |-> "google",
        strengths |-> {"multimodal", "long_context", "reasoning"},
        cost_tier |-> "medium"] >>

\* the score one model accumulates in the loop of _evaluate_candidates
CandidateScore(characteristics, model_info) ==
    (IF characteristics.complexity > 5 /\ "reasoning" \in model_info.strengths
     THEN 3 ELSE 0)
  + (IF characteristics.requires_code /\ "code" \in model_info.strengths
     THEN 3 ELSE 0)
  + (IF characteristics.requires_creativity /\ "creative" \in model_info.strengths
     THEN 2 ELSE 0)
  + (IF characteristics.requires_long_context /\ "long_context" \in model_info.strengths
     THEN 2 ELSE 0)
  + (IF characteristics.budget_constraint = "low" /\ model_info.cost_tier = "low" THEN 1
     ELSE IF characteristics.budget_constraint = "high" /\ model_info.cost_tier = "high"
     THEN 1 ELSE 0)

\* where x goes in a list already sorted by descending score
InsertByScore_before_equals(sorted, x) ==
    LET k == Cardinality({ i \in 1..Len(sorted) : sorted[i].score > x.score })
    IN SubSeq(sorted, 1, k) \o <<x>> \o SubSeq(sorted, k + 1, Len(sorted))

\* list.sort keeps elements of equal key in their order: x goes behind
\* every element whose score is at least its own
InsertByScore(sorted, x) ==
    LET k == Cardinality({ i \in 1..Len(sorted) : sorted[i].score >= x.score })
    IN SubSeq(sorted, 1, k) \o <<x>> \o SubSeq(sorted, k + 1, Len(sorted))

\* candidates.sort(key=lambda x: x["score"], reverse=True)
RECURSIVE SortByScoreDescending(_)
SortByScoreDescending(candidates) ==
    IF candidates = <<>> THEN <<>>
    ELSE InsertByScore(SortByScoreDescending(SubSeq(candidates, 1, Len(candidates) - 1)),
                       candidates[Len(candidates)])

_evaluate_candidates(characteristics) ==
    SortByScoreDescending(
        [i \in 1..Len(AVAILABLE_MODELS) |->
            [model_name |-> AVAILABLE_MODELS[i].model_name,
             score |-> CandidateScore(characteristics, AVAILABLE_MODELS[i]),
             info |-> AVAILABLE_MODELS[i]]])

Min(a, b) == IF a <= b THEN a ELSE b

_make_selections_always_fallback(candidates, characteristics) ==
    (IF candidates # <<>>
     THEN << [model_id |-> candidates[1].model_name,
              provider |-> candidates[1].info.provider,
              role |-> "primary",
              confidence_x10 |-> Min(candidates[1].score, 10)] >>
     ELSE <<>>)
    \o
    (IF Len(candidates) > 1
     THEN << [model_id |-> candidates[2].model_name,
              provider |-> candidates[2].info.provider,
              role |-> "fallback",
              confidence_x10 |-> 7] >>
     ELSE <<>>)

_make_selections(candidates, characteristics) ==
    (IF candidates # <<>>
     THEN << [model_id |-> candidates[1].model_name,
              provider |-> candidates[1].info.provider,
              role |-> "primary",
              confidence_x10 |-> Min(candidates[1].score, 10)] >>
     ELSE <<>>)
    \o
    (IF characteristics.complexity > 6 /\ Len(candidates) > 1
     THEN << [model_id |-> candidates[2].model_name,
              provider |-> candidates[2].info.provider,
              role |-> "fallback",
              confidence_x10 |-> 7] >>
     ELSE <<>>)

----------------------------------------------------------------------------
(* phases/phase7.py: Validator.  A score is stored times 1000.  The result *)
(* text is represented by what the checks measure in it: its length, the   *)
(* number of its paragraphs (parts separated by a blank line), whether the *)
(* paragraph lengths are unbalanced, whether it holds a heading or list    *)
(* marker, and how many of the request's keywords occur in it.             *)

\* design_document is None when it has no sections attribute, else the
\* number of its sections
_check_completeness(result, design_document) ==
    LET failing == /\ Present(design_document)
                   /\ 10 * result.paragraphs < 7 * Val(design_document)
    IN [check_name |-> "completeness", level |-> "critical",
        passed |-> ~failing,
        score |-> IF failing THEN (1000 * result.paragraphs) \div Val(design_document)
                  ELSE 1000,
        issues |-> IF failing THEN 1 ELSE 0]

\* keywords: the first ten words of the request longer than two characters
_check_accuracy(result, original_request) ==
    LET keywords == original_request.keywords
        score == IF keywords > 0 THEN (1000 * result.matched) \div keywords ELSE 1000
        failing == keywords > 0 /\ 2 * result.matched < keywords
    IN [check_name |-> "accuracy", level |-> "high",
        passed |-> ~failing, score |-> score,
        issues |-> IF failing THEN 1 ELSE 0]

_check_consistency(result) ==
    LET few == result.paragraphs < 2
        score1 == IF few THEN 800 ELSE 1000
        score2 == IF result.unbalanced THEN (score1 * 9) \div 10 ELSE score1
        issues == (IF few THEN 1 ELSE 0) + (IF result.unbalanced THEN 1 ELSE 0)
    IN [check_name |-> "consistency", level |-> "medium",
        passed |-> issues = 0, score |-> score2, issues |-> issues]

_check_usability_requiring_structure(result) ==
    LET short == result.length < 100
        score1 == IF short THEN 10 * result.length ELSE 1000
        score2 == IF ~result.has_structure THEN (score1 * 9) \div 10 ELSE score1
    IN [check_name |-> "usability", level |-> "medium",
        passed |-> ~short /\ result.has_structure, score |-> score2,
        issues |-> (IF short THEN 1 ELSE 0) + (IF ~result.has_structure THEN 1 ELSE 0)]

_check_usability(result) ==
    LET short == result.length < 100
        score1 == IF short THEN 10 * result.length ELSE 1000
        score2 == IF ~result.has_structure THEN (score1 * 9) \div 10 ELSE score1
    IN [check_name |-> "usability", level |-> "medium",
        passed |-> ~short, score |-> score2,
        issues |-> (IF short THEN 1 ELSE 0) + (IF ~result.has_structure THEN 1 ELSE 0)]

_perform_checks(result, original_request, design_document) ==
    << _check_completeness(result, design_document),
       _check_accuracy(result, original_request),
       _check_consistency(result),
       _check_usability(result) >>

RECURSIVE SumOfScores(_)
SumOfScores(checks) ==
    IF checks = <<>> THEN 0 ELSE checks[1].score + SumOfScores(Tail(checks))

\* next((c.score for c in checks if c.check_name == name), 0.0)
ScoreOf(checks, name) ==
    LET found == SelectSeq(checks, LAMBDA c : c.check_name = name)
    IN IF found = <<>> THEN 0 ELSE found[1].score

_calculate_metrics(result, checks) ==
    [overall_score |-> IF checks # <<>> THEN SumOfScores(checks) \div Len(checks) ELSE 0,
     completeness |-> ScoreOf(checks, "completeness"),
     accuracy |-> ScoreOf(checks, "accuracy"),
     consistency |-> ScoreOf(checks, "consistency"),
     usability |-> ScoreOf(checks, "usability")]

_create_validation_result_critical_only(checks, metrics) ==
    [passed |-> \A i \in 1..Len(checks) : checks[i].level = "critical" => checks[i].passed,
     checks |-> checks,
     issues |-> LET RECURSIVE Count(_)
                    Count(cs) == IF cs = <<>> THEN 0 ELSE cs[1].issues + Count(Tail(cs))
                IN Count(checks),
     severity |-> IF metrics.overall_score >= 900 THEN "low"
                  ELSE IF metrics.overall_score >= 700 THEN "medium"
                  ELSE IF metrics.overall_score >= 500 THEN "high"
                  ELSE "critical"]

_create_validation_result(checks, metrics) ==
    [passed |-> \A i \in 1..Len(checks) : checks[i].passed,
     checks |-> checks,
     issues |-> LET RECURSIVE Count(_)
                    Count(cs) == IF cs = <<>> THEN 0 ELSE cs[1].issues + Count(Tail(cs))
                IN Count(checks),
     severity |-> IF metrics.overall_score >= 900 THEN "low"
                  ELSE IF metrics.overall_score >= 700 THEN "medium"
                  ELSE IF metrics.overall_score >= 500 THEN "high"
                  ELSE "critical"]

_suggest_improvements_without_praise(checks, metrics) ==
    (IF metrics.completeness < 800 THEN <<"completeness">> ELSE <<>>)
    \o (IF metrics.accuracy < 700 THEN <<"accuracy">> ELSE <<>>)
    \o (IF metrics.consistency < 800 THEN <<"consistency">> ELSE <<>>)
    \o (IF metrics.usability < 800 THEN <<"usability">> ELSE <<>>)

\* a suggestion is named by its dimension; "none needed" is the closing message
_suggest_improvements(checks, metrics) ==
    LET suggestions ==
            (IF metrics.completeness < 800 THEN <<"completeness">> ELSE <<>>)
            \o (IF metrics.accuracy < 700 THEN <<"accuracy">> ELSE <<>>)
            \o (IF metrics.consistency < 800 THEN <<"consistency">> ELSE <<>>)
            \o (IF metrics.usability < 800 THEN <<"usability">> ELSE <<>>)
    IN IF suggestions = <<>> THEN <<"none needed">> ELSE suggestions

validate_result(result, original_request, design_document) ==
    LET validation_checks == _perform_checks(result, original_request, design_document)
        quality_metrics == _calculate_metrics(result, validation_checks)
    IN [validation_result |-> _create_validation_result(validation_checks, quality_metrics),
        quality_metrics |-> quality_metrics,
        improvements |-> _suggest_improvements(validation_checks, quality_metrics)]

----------------------------------------------------------------------------
(* The pure functions, applied to every input of a bounded set *)

\* result texts: lengths around the limits of the usability check, with the
\* paragraphs, markers and keyword matches a text of that length can hold
ArtifactLengths == {0, 50, 88, 89, 99, 100, 150}

Artifacts ==
    { r \in [length : ArtifactLengths, paragraphs : 1..MaxParagraphs, unbalanced : BOOLEAN,
              has_structure : BOOLEAN, matched : 0..MaxKeywords] :
        /\ r.length >= 2 * (r.paragraphs - 1)
        /\ r.unbalanced => r.paragraphs >= 2 /\ r.length >= 3
        /\ r.has_structure => r.length >= 2
        /\ r.matched > 0 => r.length >= 3 }

\* the task characteristics _evaluate_candidates and _make_selections read
TaskCharacteristics ==
    [complexity : 0..MaxTaskComplexity, requires_code : BOOLEAN,
     requires_creativity : BOOLEAN, requires_long_context : BOOLEAN,
     budget_constraint : {"low", "medium", "high"}]

\* the layer combinations detect_hierarchy can find, and the totals a
\* ComplexityScore can have
Hierarchies == [{"Domain", "Subdomain", "Category", "Task"} -> BOOLEAN]

ComplexityTotals == 0..7

UnclearScore ==
    [specific_situation |-> FALSE, purpose_stated |-> FALSE, target_specified |-> FALSE,
     background_knowledge |-> FALSE, scope_defined |-> FALSE]

NoComplexity ==
    [creativity_needed |-> 0, analysis_needed |-> 0, integration_needed |-> 0,
     critical_domain |-> 0]

InitFunctions ==
    /\ now = 0
    /\ api_keys = {}
    /\ sessions = EmptyMap
    /\ cache = EmptyMap
    /\ response = NoCall
    /\ served = EmptyMap
    /\ dialog = NoDialog
    /\ \/ \E n \in 0..MaxApiCount, connected \in BOOLEAN :
             call = [fn |-> "_determine_execution_mode", api_count |-> n,
                     zen_mcp_status |-> [connected |-> connected], result |-> None]
       \/ \E ch \in TaskCharacteristics :
             call = [fn |-> "_evaluate_candidates", characteristics |-> ch, result |-> None]
       \/ \E ch \in TaskCharacteristics, k \in 0..Len(AVAILABLE_MODELS) :
             call = [fn |-> "_make_selections",
                     candidates |-> SubSeq(_evaluate_candidates(ch), 1, k),
                     characteristics |-> ch, result |-> None]
       \/ \E r \in Artifacts, k \in 0..MaxKeywords,
                d \in {None} \cup { Some(n) : n \in 1..MaxSections } :
             /\ r.matched <= k
             /\ call = [fn |-> "validate_result", result_text |-> r,
                         original_request |-> [keywords |-> k],
                         design_document |-> d, result |-> None]
       \/ \E c \in ClarityScores :
             call = [fn |-> "ClarityScore", clarity_score |-> c, result |-> None]
       \/ \E h \in Hierarchies, n \in ComplexityTotals :
             call = [fn |-> "assign",
                     user_request |-> [clarity |-> UnclearScore, complexity |-> NoComplexity,
                                       hierarchy |-> h],
                     complexity_score |-> n, result |-> None]
       \/ \E c \in ClarityScores, x \in ComplexityScores, m \in BOOLEAN :
             call = [fn |-> "analyze",
                     user_request |-> [clarity |-> c, complexity |-> x,
                                       hierarchy |-> [Domain |-> FALSE, Subdomain |-> FALSE,
                                                      Category |-> FALSE, Task |-> FALSE]],
                     reclassify_mode |-> m, result |-> None]

FunctionFrame == UNCHANGED <<now, api_keys, sessions, cache, response, served, dialog>>

Call_determine_execution_mode ==
    /\ call.fn = "_determine_execution_mode"
    /\ IsNone(call.result)
    /\ call' = [call EXCEPT !.result =
                   Some(_determine_execution_mode(call.api_count, call.zen_mcp_status))]
    /\ FunctionFrame

Call_analyze ==
    /\ call.fn = "analyze"
    /\ IsNone(call.result)
    /\ call' = [call EXCEPT !.result = Some(analyze(call.user_request, call.reclassify_mode))]
    /\ FunctionFrame

\* reading the two properties of a ClarityScore
Call_ClarityScore ==
    /\ call.fn = "ClarityScore"
    /\ IsNone(call.result)
    /\ call' = [call EXCEPT !.result =
                   Some([total_score |-> ClarityTotal(call.clarity_score),
                         is_clear |-> IsClear(call.clarity_score)])]
    /\ FunctionFrame

Call_assign ==
    /\ call.fn = "assign"
    /\ IsNone(call.result)
    /\ call' = [call EXCEPT !.result = Some(assign(call.user_request, call.complexity_score))]
    /\ FunctionFrame

Call_evaluate_candidates ==
    /\ call.fn = "_evaluate_candidates"
    /\ IsNone(call.result)
    /\ call' = [call EXCEPT !.result = Some(_evaluate_candidates(call.characteristics))]
    /\ FunctionFrame

Call_make_selections ==
    /\ call.fn = "_make_selections"
    /\ IsNone(call.result)
    /\ call' = [call EXCEPT !.result =
                   Some(_make_selections(call.candidates, call.characteristics))]
    /\ FunctionFrame

Call_validate_result ==
    /\ call.fn = "validate_result"
    /\ IsNone(call.result)
    /\ call' = [call EXCEPT !.result =
                   Some(validate_result(call.result_text, call.original_request,
                                        call.design_document))]
    /\ FunctionFrame

NextFunctions ==
    \/ Call_validate_result
    \/ Call_evaluate_candidates
    \/ Call_make_selections
    \/ Call_determine_execution_mode
    \/ Call_analyze
    \/ Call_ClarityScore
    \/ Call_assign

SpecFunctions == InitFunctions /\ [][NextFunctions]_vars

----------------------------------------------------------------------------
(* Properties of the workflow server (Spec) *)

PhaseOps == {"assign_experts", "check_environment", "gather_information",
             "clarify_user_intent", "answer_clarification_question",
             "create_design", "select_llm", "execute_task"}

PhaseEntryOps == {"assign_experts", "check_environment", "gather_information",
                  "create_design", "select_llm", "execute_task"}

\* the step is a call of tool op on session sid
Called(op, sid) == response'.op = op /\ response'.sid = sid

Succeeded(op, sid) == Called(op, sid) /\ response'.error = ""

\* C1: once a session's elapsed time exceeds its timeout budget, every phase
\* operation on it returns the timeout error and leaves the session as it is,
\* the session stays timed out until analyze_request re-creates it, and
\* get_workflow_status still succeeds (and reports the timeout).
C1_TimeoutIsTerminal ==
    [][ \A sid \in DOMAIN sessions :
          is_timeout(sessions[sid], now) =>
             /\ \A op \in PhaseOps :
                   Called(op, sid) => /\ response'.error = "Session timeout"
                                      /\ sessions'[sid] = sessions[sid]
             /\ Called("get_workflow_status", sid) =>
                   /\ response'.error = ""
                   /\ response'.is_timeout
                   /\ sessions'[sid] = sessions[sid]
             /\ ~Called("analyze_request", sid) =>
                   /\ sid \in DOMAIN sessions'
                   /\ is_timeout(sessions'[sid], now')
      ]_vars

\* a timed-out session that has passed phase 1 is refused create_design
C1_Witness ==
    \E sid \in DOMAIN sessions :
        /\ is_timeout(sessions[sid], now)
        /\ Present(sessions[sid].phase1_result)
        /\ response.op = "create_design" /\ response.sid = sid
        /\ response.error = "Session timeout"

Required(op, w) ==
    CASE op = "assign_experts" -> Present(w.phase0_result)
      [] op = "check_environment" -> Present(w.phase1_result)
      [] op = "gather_information" -> Present(w.phase1_result)
      [] op = "create_design" -> Present(w.phase0_result) /\ Present(w.phase1_result)
      [] op = "select_llm" -> Present(w.phase4_result)
      [] op = "execute_task" -> Present(w.phase4_result)

PreconditionError(op) ==
    CASE op = "assign_experts" -> "Phase 0 not completed"
      [] op = "check_environment" -> "Phase 1 not completed"
      [] op = "gather_information" -> "Phase 1 not completed"
      [] op = "create_design" -> "Previous phases not completed"
      [] op = "select_llm" -> "Phase 4 not completed"
      [] op = "execute_task" -> "Design not created"

C3_PendingBlocksPhases ==
    [][ \A sid \in DOMAIN sessions, op \in PhaseEntryOps :
          LET w == sessions[sid] IN
          (/\ w.waiting_for_answer
           /\ ~is_timeout(w, now)
           /\ Required(op, w)
           /\ Called(op, sid))
          => /\ response'.error = "Clarification questions are still pending"
             /\ sessions' = sessions
      ]_vars

\* C17 as claimed: every response recorded for a session by
\* answer_clarification_question has satisfied = true exactly when the answer
\* without its surrounding whitespace is longer than 5 characters.
C17_SatisfiedByTrimmedLength ==
    \A sid \in DOMAIN sessions :
        Present(sessions[sid].collected_answers) =>
            \A i \in 1..Len(Val(sessions[sid].collected_answers)) :
                LET r == Val(sessions[sid].collected_answers)[i] IN
                r.satisfied <=> r.answer.stripped > 5

\* C18: answer_clarification_question on a session with no pending question
\* (none issued yet, or the dialog completed) returns an error, which on a
\* live session is the no-pending-question error, and leaves the session,
\* so its answers, question index, waiting flag, phase-3 result and current
\* phase, unchanged.
C18_NoPendingQuestionIsAnError ==
    [][ \A sid \in DOMAIN sessions :
          LET w == sessions[sid] IN
          (~w.waiting_for_answer /\ Called("answer_clarification_question", sid)) =>
             /\ response'.error # ""
             /\ ~is_timeout(w, now) =>
                   response'.error = "No question is waiting for an answer"
             /\ sessions'[sid] = w
      ]_vars

\* an answer sent after the dialog completed was refused
C18_Witness ==
    \E sid \in DOMAIN sessions :
        /\ Present(sessions[sid].phase3_result)
        /\ ~sessions[sid].waiting_for_answer
        /\ sessions[sid].current_phase = 30
        /\ response.op = "answer_clarification_question" /\ response.sid = sid
        /\ response.error = "No question is waiting for an answer"

\* C20 as claimed: once the clarification dialog of a Type 3 session has
\* completed, the re-classification analyze_request computes for that
\* session is Type 1 or Type 2, never Type 3 again.
C20_ReclassifiedOutOfType3 ==
    [][ \A sid \in DOMAIN sessions :
          LET w == sessions[sid] IN
          (/\ Present(w.phase0_result)
           /\ Val(w.phase0_result).request_type = "Type 3"
           /\ Present(w.phase3_result)
           /\ Called("analyze_request", sid))
          => /\ response'.status \in {"Type 1", "Type 2"}
             /\ Val(sessions'[sid].phase0_result).request_type \in {"Type 1", "Type 2"}
      ]_vars

\* the result slots of a session, and the slot each phase tool owns
ResultSlots == {"phase0_result", "phase1_result", "phase1_5_result", "phase2_result",
                "phase3_result", "phase4_result", "phase5_result", "phase7_result"}

OwnSlots(op) ==
    CASE op = "assign_experts" -> {"phase1_result"}
      [] op = "check_environment" -> {"phase1_5_result"}
      [] op = "gather_information" -> {"phase2_result"}
      [] op \in {"clarify_user_intent", "answer_clarification_question"} -> {"phase3_result"}
      [] op = "create_design" -> {"phase4_result"}
      [] op = "select_llm" -> {"phase5_result"}
      [] op = "execute_task" -> {}

\* C23: a phase operation changes no result slot of the session but the one
\* of its own phase (execute_task changes none), and an operation that
\* returns an error changes no slot at all.
C23_OnlyOwnSlotWritten ==
    [][ \A sid \in DOMAIN sessions, op \in PhaseOps :
          Called(op, sid) =>
             /\ \A slot \in ResultSlots \ OwnSlots(op) :
                    sessions'[sid][slot] = sessions[sid][slot]
             /\ response'.error # "" =>
                    \A slot \in ResultSlots : sessions'[sid][slot] = sessions[sid][slot]
      ]_vars

\* information was gathered again on a session that already has a design
\* and a backend selection, which are still there
C23_Witness ==
    \E sid \in DOMAIN sessions :
        /\ response.op = "gather_information" /\ response.sid = sid
        /\ response.error = ""
        /\ sessions[sid].current_phase = 20
        /\ Present(sessions[sid].phase2_result)
        /\ Present(sessions[sid].phase4_result)
        /\ Present(sessions[sid].phase5_result)

RequestTypeOf(w) == Val(w.phase0_result).request_type

C22_CurrentPhaseNeverDecreases ==
    [][ \A sid \in DOMAIN sessions, op \in PhaseOps :
          Succeeded(op, sid) =>
              sessions'[sid].current_phase >= sessions[sid].current_phase
      ]_vars

----------------------------------------------------------------------------
(* Properties of the clarification dialog (SpecDialog) *)

\* the area a category belongs to
AreaOf(category) == CHOOSE area \in { all_areas[i] : i \in 1..Len(all_areas) } :
                        question_templates(area).category = category

\* C19 as claimed: a question the dialog is given is never of a category
\* for which an answer has been recorded; it is the first area of the fixed
\* order that is neither answered nor covered by the phase-2 context.
C19_NoAnsweredCategoryAgain ==
    (dialog.pc = "answer") =>
        LET q == Val(dialog.question)
            answered == { AreaOf(dialog.previous_answers[i].question_id.category) :
                             i \in 1..Len(dialog.previous_answers) }
            open == SelectSeq(all_areas,
                        LAMBDA area : /\ area \notin answered
                                      /\ (IsNone(dialog.phase2_data)
                                          \/ area \notin Val(dialog.phase2_data)))
        IN /\ q.area \notin answered
           /\ open # <<>>
           /\ q.area = open[1]

\* C4: a dialog that asks with iteration 0, 1, 2, ... is issued at most
\* MAX_ITERATIONS questions, and every call with iteration >= MAX_ITERATIONS
\* returns no question, whatever the phase-2 context and the answers.
C4_AtMostTenQuestions ==
    /\ dialog.issued <= MAX_ITERATIONS
    /\ (dialog.pc # "ask" /\ dialog.iteration >= MAX_ITERATIONS) => IsNone(dialog.question)

\* ten questions were issued and the call with iteration 10 returned none
C4_Witness ==
    /\ dialog.pc = "asked"
    /\ dialog.iteration = MAX_ITERATIONS
    /\ dialog.issued = MAX_ITERATIONS
    /\ IsNone(dialog.question)

\* C5: with one answer recorded per iteration from iteration 0 on,
\* check_clarification_complete reports completion at iteration 9 at the
\* latest whatever the answers, and reports it whenever at least 3 answers
\* are collected and at least 80% of them are satisfied.
C5_CompleteByIterationNine ==
    /\ \A i \in 1..Len(dialog.reports) :
          LET r == dialog.reports[i] IN
          /\ (r.answers >= 3 /\ 5 * r.satisfied >= 4 * r.answers) => r.complete
          /\ (r.answers = r.iteration + 1 /\ r.iteration >= MAX_ITERATIONS - 1) => r.complete
    /\ (Len(dialog.reports) >= MAX_ITERATIONS
        /\ \A i \in 1..Len(dialog.reports) : dialog.reports[i].iteration = i - 1)
       => \E i \in 1..MAX_ITERATIONS : dialog.reports[i].complete

\* ten unsatisfying answers, and completion is reported at iteration 9
C5_Witness ==
    /\ dialog.pc = "asked"
    /\ \E i \in 1..Len(dialog.reports) :
          LET r == dialog.reports[i] IN
          /\ r.iteration = MAX_ITERATIONS - 1
          /\ r.answers = MAX_ITERATIONS
          /\ r.satisfied = 0
          /\ r.complete
          /\ \A j \in 1..(i - 1) : ~dialog.reports[j].complete

----------------------------------------------------------------------------
(* Properties of the environment checker (SpecEnv) *)

EnvCall == "EnvironmentChecker.check_environment"

\* C6: a snapshot returned by check_environment is always younger than the
\* TTL; when the cached entry has reached the TTL it is deleted, and a
\* snapshot computed at the time of the call is stored and returned.
C6_NeverServedPastTTL ==
    [][ \A sid \in EnvSessionIds :
          Called(EnvCall, sid) =>
             /\ now' - response'.result.checked_at < _cache_ttl
             /\ (sid \in DOMAIN cache /\ now - cache[sid].checked_at >= _cache_ttl) =>
                   /\ response'.evicted
                   /\ response'.probed
                   /\ response'.result.checked_at = now
                   /\ cache'[sid] = response'.result
      ]_vars

\* an entry exactly as old as the TTL was evicted and replaced
C6_Witness ==
    /\ response.op = EnvCall
    /\ response.evicted
    /\ response.sid \in DOMAIN served
    /\ response.result.checked_at = now
    /\ cache[response.sid] = response.result

\* C7 as claimed: two calls for one session id less than 5 minutes apart
\* return the same snapshot; a call 5 minutes or more after the snapshot's
\* checked_at returns a snapshot with a later checked_at.
C7_Original ==
    [][ \A sid \in DOMAIN served :
          Called(EnvCall, sid) =>
             /\ now - served[sid].at < _cache_ttl =>
                   response'.result = served[sid].snapshot
             /\ now - served[sid].snapshot.checked_at >= _cache_ttl =>
                   response'.result.checked_at > served[sid].snapshot.checked_at
      ]_vars

\* C7 (amended): a call made less than 5 minutes after the checked_at of the
\* snapshot the previous call for that session id returned gets that same
\* snapshot, without a new probe, even if the configured backends changed in
\* between; a call 5 minutes or more after that checked_at gets a newly
\* probed snapshot with a later checked_at.
C7_SameSnapshotWithinTTL ==
    [][ \A sid \in DOMAIN served :
          LET prev == served[sid].snapshot IN
          Called(EnvCall, sid) =>
             /\ now - prev.checked_at < _cache_ttl =>
                   /\ response'.result = prev
                   /\ ~response'.probed
             /\ now - prev.checked_at >= _cache_ttl =>
                   /\ response'.probed
                   /\ response'.result.checked_at > prev.checked_at
      ]_vars

\* a snapshot was served again although the configured backends had changed
C7_Witness ==
    /\ response.op = EnvCall
    /\ ~response.probed
    /\ now > response.result.checked_at
    /\ response.result.available_apis # _count_available_apis(api_keys)

----------------------------------------------------------------------------
(* Properties of the pure functions (SpecFunctions) *)

\* C8: the execution mode depends only on the backend count and the fallback
\* connectivity and is the same for phase 2 and phase 4: solo for count 0
\* with fallback, unavailable for count 0 without, multi for every count >= 1.
C8_ExecutionMode ==
    (call.fn = "_determine_execution_mode" /\ Present(call.result)) =>
        LET mode == Val(call.result) IN
        /\ mode.phase2 = mode.phase4
        /\ mode.phase2 = (IF call.api_count >= 1 THEN "multi"
                          ELSE IF call.zen_mcp_status.connected THEN "solo"
                          ELSE "unavailable")

\* no backend and no fallback
C8_Witness ==
    /\ call.fn = "_determine_execution_mode"
    /\ call.api_count = 0
    /\ ~call.zen_mcp_status.connected
    /\ Present(call.result)
    /\ Val(call.result).phase2 = "unavailable"

\* C10: analyze returns Type 3 exactly when the request is not clear and
\* reclassify_mode is off, Type 2 exactly when (clear or reclassifying) and
\* the complexity total is at least 4, and Type 1 otherwise.
C10_DecisionTable ==
    (call.fn = "analyze" /\ Present(call.result)) =>
        LET clear == IsClear(call.user_request.clarity)
            total == ComplexityTotal(call.user_request.complexity)
        IN Val(call.result).request_type =
              (IF ~clear /\ ~call.reclassify_mode THEN "Type 3"
               ELSE IF total >= 4 THEN "Type 2"
               ELSE "Type 1")

\* an unclear, complex request under reclassify_mode
C10_Witness ==
    /\ call.fn = "analyze"
    /\ Present(call.result)
    /\ ~IsClear(call.user_request.clarity)
    /\ call.reclassify_mode
    /\ ComplexityTotal(call.user_request.complexity) >= 4
    /\ Val(call.result).request_type = "Type 2"

\* the indicators of a clarity score that are true
TrueIndicators(c) == { f \in DOMAIN c : c[f] }

\* C11: for each of the 32 combinations of the five clarity indicators,
\* total_score is the number of indicators that are true and is_clear holds
\* exactly when that number is at least 4.
C11_ClarityScore ==
    (call.fn = "ClarityScore" /\ Present(call.result)) =>
        /\ Val(call.result).total_score = Cardinality(TrueIndicators(call.clarity_score))
        /\ Val(call.result).is_clear <=> Cardinality(TrueIndicators(call.clarity_score)) >= 4

\* three indicators are true and the score is not clear
C11_Witness ==
    /\ call.fn = "ClarityScore"
    /\ Present(call.result)
    /\ Cardinality(TrueIndicators(call.clarity_score)) = 3
    /\ Val(call.result).total_score = 3
    /\ ~Val(call.result).is_clear

\* C12: the confidence analyze returns is 1.0 for a clarity total of 0 or 5,
\* 0.8 for 1 or 4 and 0.6 for 2 or 3, whatever the complexity score and
\* whatever reclassify_mode.
C12_Confidence ==
    (call.fn = "analyze" /\ Present(call.result)) =>
        LET total == Cardinality(TrueIndicators(call.user_request.clarity)) IN
        Val(call.result).confidence_x10 =
            (CASE total \in {0, 5} -> 10
               [] total \in {1, 4} -> 8
               [] total \in {2, 3} -> 6)

\* a request with no indicator, complex, reclassified: confidence 1.0
C12_Witness ==
    /\ call.fn = "analyze"
    /\ Present(call.result)
    /\ Cardinality(TrueIndicators(call.user_request.clarity)) = 0
    /\ ComplexityTotal(call.user_request.complexity) >= 4
    /\ call.reclassify_mode
    /\ Val(call.result).confidence_x10 = 10

\* C13 as claimed: assign returns mode single if the complexity total is at
\* most 3 or exactly one expert is in the returned list, and collaborative
\* otherwise.
C13_ProcessingMode ==
    (call.fn = "assign" /\ Present(call.result)) =>
        Val(call.result).processing_mode =
            (IF call.complexity_score <= 3 \/ Len(Val(call.result).experts) = 1
             THEN "single" ELSE "collaborative")

\* C14: for each of the 16 combinations of layers, the experts are one per
\* active layer, in the order Domain, Subdomain, Category, Task, each covering
\* exactly its layer; with no active layer there is exactly one generic
\* expert with no layers.
C14_OneExpertPerLayer ==
    (call.fn = "assign" /\ Present(call.result)) =>
        LET h == call.user_request.hierarchy
            experts == Val(call.result).experts
            active == { l \in DOMAIN h : h[l] }
            Rank(l) == CHOOSE i \in 1..4 : LayerOrder[i] = l
        IN IF active = {}
           THEN experts = << [name |-> "General Expert", layers |-> <<>>] >>
           ELSE /\ Len(experts) = Cardinality(active)
                /\ \A i \in 1..Len(experts) :
                      /\ Len(experts[i].layers) = 1
                      /\ experts[i].layers[1] \in active
                      /\ experts[i].name = ExpertName(experts[i].layers[1])
                /\ \A i, j \in 1..Len(experts) :
                      i < j => Rank(experts[i].layers[1]) < Rank(experts[j].layers[1])

\* no layer is active: one generic expert
C14_Witness ==
    /\ call.fn = "assign"
    /\ Present(call.result)
    /\ \A l \in DOMAIN call.user_request.hierarchy : ~call.user_request.hierarchy[l]
    /\ Len(Val(call.result).experts) = 1
    /\ Val(call.result).experts[1].layers = <<>>

\* the place of a model in the declared catalogue
CatalogueIndex(model_name) ==
    CHOOSE i \in 1..Len(AVAILABLE_MODELS) : AVAILABLE_MODELS[i].model_name = model_name

\* C15: the ranking _evaluate_candidates returns is ordered by non-increasing
\* score, and two candidates of equal score stand in the order in which the
\* catalogue declares them.
C15_StableRanking ==
    (call.fn = "_evaluate_candidates" /\ Present(call.result)) =>
        LET ranking == Val(call.result) IN
        /\ Len(ranking) = Len(AVAILABLE_MODELS)
        /\ \A i, j \in 1..Len(ranking) :
              i < j =>
                 /\ ranking[i].score >= ranking[j].score
                 /\ ranking[i].score = ranking[j].score =>
                       CatalogueIndex(ranking[i].model_name)
                           < CatalogueIndex(ranking[j].model_name)

\* the sort moved the second model of the catalogue to the front, and the
\* tied candidates behind it are in catalogue order
C15_Witness ==
    /\ call.fn = "_evaluate_candidates"
    /\ Present(call.result)
    /\ Val(call.result)[1].model_name = AVAILABLE_MODELS[2].model_name
    /\ Val(call.result)[1].score > Val(call.result)[2].score
    /\ Val(call.result)[2].score = Val(call.result)[3].score
    /\ Val(call.result)[2].model_name = AVAILABLE_MODELS[1].model_name
    /\ Val(call.result)[3].model_name = AVAILABLE_MODELS[3].model_name

\* C16: the selection list starts with the top-ranked candidate, with role
\* primary and confidence min(score/10, 1.0); it has a second entry exactly
\* when the task complexity exceeds 6 and a second candidate exists, that
\* entry being the second-ranked candidate with role fallback and confidence
\* 0.7; there is no other entry.
C16_PrimaryAndFallback ==
    (call.fn = "_make_selections" /\ Present(call.result)) =>
        LET selections == Val(call.result)
            candidates == call.candidates
            with_fallback == call.characteristics.complexity > 6 /\ Len(candidates) >= 2
        IN /\ candidates # <<>> =>
                 /\ Len(selections) = (IF with_fallback THEN 2 ELSE 1)
                 /\ selections[1].model_id = candidates[1].model_name
                 /\ selections[1].role = "primary"
                 /\ selections[1].confidence_x10 =
                        (IF candidates[1].score <= 10 THEN candidates[1].score ELSE 10)
                 /\ with_fallback =>
                        /\ selections[2].model_id = candidates[2].model_name
                        /\ selections[2].role = "fallback"
                        /\ selections[2].confidence_x10 = 7
           /\ candidates = <<>> => selections = <<>>

\* a task of complexity 7: a primary and a fallback selection
C16_Witness ==
    /\ call.fn = "_make_selections"
    /\ Present(call.result)
    /\ call.characteristics.complexity = 7
    /\ Len(call.candidates) = Len(AVAILABLE_MODELS)
    /\ Len(Val(call.result)) = 2
    /\ Val(call.result)[1].role = "primary"
    /\ Val(call.result)[1].confidence_x10 = call.candidates[1].score
    /\ Val(call.result)[2].role = "fallback"

\* C27: the passed flag of the validation result is true exactly when the
\* completeness, accuracy, consistency and usability checks all passed.
C27_PassedIffAllChecksPass ==
    (call.fn = "validate_result" /\ Present(call.result)) =>
        LET v == Val(call.result).validation_result IN
        /\ Len(v.checks) = 4
        /\ { v.checks[i].check_name : i \in 1..4 } =
              {"completeness", "accuracy", "consistency", "usability"}
        /\ v.passed <=> (\A i \in 1..4 : v.checks[i].passed)

\* only the usability check fails, the three others score 1.0: not passed
C27_Witness ==
    /\ call.fn = "validate_result"
    /\ Present(call.result)
    /\ LET v == Val(call.result).validation_result IN
       /\ \A i \in 1..3 : v.checks[i].passed /\ v.checks[i].score = 1000
       /\ ~v.checks[4].passed
       /\ ~v.passed

\* the usability check of a validation
Usability(r) == Val(r).validation_result.checks[4]

\* C28 as claimed: the usability check fails exactly when the text is
\* shorter than 100 characters; a text without a structural marker scores
\* below 1.0; a text shorter than 100 characters without a marker fails,
\* scores below 1.0 and gets the usability suggestion.
C28_Original ==
    (call.fn = "validate_result" /\ Present(call.result)) =>
        LET u == Usability(call.result)
            text == call.result_text
            suggested == \E i \in 1..Len(Val(call.result).improvements) :
                            Val(call.result).improvements[i] = "usability"
        IN /\ ~u.passed <=> text.length < 100
           /\ ~text.has_structure => u.score < 1000
           /\ (text.length < 100 /\ ~text.has_structure) =>
                  ~u.passed /\ u.score < 1000 /\ suggested

\* C28 (amended): the usability check fails exactly when the text is shorter
\* than 100 characters; a text without a structural marker scores below 1.0
\* (0.9 of what it would score with one) and does not fail for that alone;
\* the usability suggestion is given exactly when the score is below 0.8,
\* which for a text without a marker means 88 characters or fewer.
C28_UsabilityCheck ==
    (call.fn = "validate_result" /\ Present(call.result)) =>
        LET u == Usability(call.result)
            text == call.result_text
            suggested == \E i \in 1..Len(Val(call.result).improvements) :
                            Val(call.result).improvements[i] = "usability"
        IN /\ ~u.passed <=> text.length < 100
           /\ ~text.has_structure => u.score < 1000
           /\ (text.length >= 100 /\ ~text.has_structure) => u.passed /\ u.score = 900
           /\ suggested <=> u.score < 800
           /\ ~text.has_structure => (suggested <=> text.length <= 88)

\* 89 characters, no marker: the check fails, no usability suggestion
C28_Witness ==
    /\ call.fn = "validate_result"
    /\ Present(call.result)
    /\ call.result_text.length = 89
    /\ ~call.result_text.has_structure
    /\ ~Usability(call.result).passed
    /\ Usability(call.result).score = 801
    /\ \A i \in 1..Len(Val(call.result).improvements) :
           Val(call.result).improvements[i] # "usability"

\* C29: the improvements are never empty: one suggestion for each dimension
\* whose score is below its threshold (0.8 for completeness, consistency
\* and usability, 0.7 for accuracy), or the single closing message exactly
\* when no dimension is below its threshold.
C29_ImprovementsNeverEmpty ==
    (call.fn = "validate_result" /\ Present(call.result)) =>
        LET m == Val(call.result).quality_metrics
            improvements == Val(call.result).improvements
            below == { d \in {"completeness", "accuracy", "consistency", "usability"} :
                         m[d] < (IF d = "accuracy" THEN 700 ELSE 800) }
            given == { improvements[i] : i \in 1..Len(improvements) }
        IN /\ improvements # <<>>
           /\ below # {} => given = below /\ Len(improvements) = Cardinality(below)
           /\ below = {} <=> improvements = <<"none needed">>

\* a validation that fails and still gets only the closing message
C29_Witness ==
    /\ call.fn = "validate_result"
    /\ Present(call.result)
    /\ ~Val(call.result).validation_result.passed
    /\ Val(call.result).improvements = <<"none needed">>

----------------------------------------------------------------------------
(* Properties of repeated calls (SpecFlow) *)

IdempotentOps == {"analyze_request", "assign_experts", "check_environment",
                  "gather_information", "create_design", "select_llm",
                  "execute_task", "get_workflow_status"}

\* a tool is called (tools leave the clock alone) right after a call of the
\* same tool for the same session with the same arguments: the request text
\* of analyze_request is the one stored by the first call, and the backend
\* of execute_task is known from the reply whenever it matters
CalledAgain(op, sid) ==
    /\ now' = now
    /\ response.op = op /\ response.sid = sid
    /\ response'.op = op /\ response'.sid = sid
    /\ op = "analyze_request" => sessions'[sid].user_request = sessions[sid].user_request
    /\ op = "execute_task" => (response'.status = "raised" <=> response.status = "raised")

\* both calls fall within the session timeout and, for check_environment,
\* within the TTL of the snapshot cached by the first
WithinLimits(op, sid) ==
    /\ response.error # "Session timeout"
    /\ response'.error # "Session timeout"
    /\ (op = "check_environment" /\ sid \in DOMAIN cache) =>
           now - cache[sid].checked_at < _cache_ttl

----------------------------------------------------------------------------
(* Properties of interleaved sessions (SpecSessions) *)

\* what is stored for a session id: its workflow state and its cached
\* environment snapshot, each None when absent
StoredFor(ss, c, sid) ==
    [state |-> IF sid \in DOMAIN ss THEN Some(ss[sid]) ELSE None,
     snapshot |-> IF sid \in DOMAIN c THEN Some(c[sid]) ELSE None]

\* C24: a call for session id A leaves what is stored for every other
\* session id B, its workflow state and its cached environment snapshot,
\* unchanged, whatever the order in which the calls of the sessions arrive.
C24_OtherSessionsUntouched ==
    [][ \A a \in TwoSessionIds, b \in TwoSessionIds :
          (a # b /\ response'.op # "none" /\ response'.sid = a) =>
             StoredFor(sessions', cache', b) = StoredFor(sessions, cache, b)
      ]_vars

\* both sessions are under way with a cached snapshot each, s2 executed
\* with every slot of its own filled, and the last call was one for s1
C24_Witness ==
    /\ DOMAIN sessions = TwoSessionIds
    /\ DOMAIN cache = TwoSessionIds
    /\ response.sid = "s1"
    /\ response.op = "check_environment"
    /\ sessions["s1"].current_phase = 15
    /\ sessions["s2"].current_phase = 60
    /\ Present(sessions["s2"].phase2_result)
    /\ Present(sessions["s2"].phase3_result)
    /\ Present(sessions["s2"].phase5_result)

----------------------------------------------------------------------------
(* Properties of the coroutine tools (SpecAsync) *)

PhaseOfCall(c) ==
    CASE c.op = "gather_information" -> 20
      [] c.op = "create_design" -> 40
      [] c.op = "execute_task" -> 60

SlotsOfCall(c) ==
    CASE c.op = "gather_information" -> {"phase2_result"}
      [] c.op = "create_design" -> {"phase4_result"}
      [] c.op = "execute_task" -> {}

\* C32: the timeout is evaluated at the entry of a coroutine tool and not
\* again: a call is let past its entry only on a session within its
\* deadline, and a call that is past its entry stores its result, sets
\* current_phase and returns no timeout error when it resumes, also when
\* the deadline of the session has passed in the meantime; the call that
\* enters next on that session is the one that returns the timeout error.
C32_TimeoutOnlyAtEntry ==
    [][ /\ \A c \in InFlightCalls' \ InFlightCalls :
              ~is_timeout(sessions[c.sid], now)
        /\ \A sid \in DOMAIN sessions :
              (/\ call' = call /\ response' # response /\ response'.sid = sid
               /\ response'.op \in {"gather_information", "create_design", "execute_task"}
               /\ is_timeout(sessions[sid], now)) =>
                  response'.error = "Session timeout"
        /\ \A c \in InFlightCalls \ InFlightCalls' :
              /\ response'.op = c.op
              /\ response'.error # "Session timeout"
              /\ c.selected_llm \in {"", "claude", "gpt", "gemini"} =>
                    /\ response'.error = ""
                    /\ sessions'[c.sid].current_phase = PhaseOfCall(c)
                    /\ sessions'[c.sid].updated_at = now
                    /\ \A slot \in SlotsOfCall(c) : Present(sessions'[c.sid][slot])
      ]_vars

\* a design was stored at a time at which the session had timed out
C32_Witness ==
    \E sid \in DOMAIN sessions :
        /\ response.op = "create_design" /\ response.sid = sid
        /\ response.error = ""
        /\ is_timeout(sessions[sid], now)
        /\ sessions[sid].updated_at = now
        /\ sessions[sid].current_phase = 40
        /\ Present(sessions[sid].phase4_result)

----------------------------------------------------------------------------
(* Properties of the backend scores (SpecFunctions) *)

\* the score the rule of five matches gives a model
MatchScore(characteristics, model_info) ==
    (IF characteristics.complexity > 5 /\ "reasoning" \in model_info.strengths
     THEN 3 ELSE 0)
  + (IF characteristics.requires_code /\ "code" \in model_info.strengths THEN 3 ELSE 0)
  + (IF characteristics.requires_creativity /\ "creative" \in model_info.strengths
     THEN 2 ELSE 0)
  + (IF characteristics.requires_long_context /\ "long_context" \in model_info.strengths
     THEN 2 ELSE 0)
  + (IF model_info.cost_tier = characteristics.budget_constraint THEN 1 ELSE 0)

\* C31 as claimed: each candidate's score is the sum of +3 for reasoning,
\* +3 for code, +2 for creativity, +2 for long context, each when the
\* model has the strength and the task requires it, and +1 when the model's
\* cost tier equals the budget tier of the task, whichever tier that is.
C31_ScoreIsSumOfMatches ==
    (call.fn = "_evaluate_candidates" /\ Present(call.result)) =>
        \A i \in 1..Len(Val(call.result)) :
            Val(call.result)[i].score =
                MatchScore(call.characteristics, Val(call.result)[i].info)

----------------------------------------------------------------------------
(* Properties of the execution mode served (SpecEnv) *)

\* C39: the fallback probe always reports connected, so no call of
\* EnvironmentChecker.check_environment returns the mode unavailable: the
\* snapshot returned has mode solo for both phases when it counted no
\* configured backend and multi when it counted one or more, and a snapshot
\* probed by the call counts the backends configured at the call.
C39_NeverUnavailable ==
    response.op = "EnvironmentChecker.check_environment" =>
        LET r == response.result IN
        /\ r.zen_mcp_connected
        /\ r.execution_mode.phase2 # "unavailable"
        /\ r.execution_mode.phase4 # "unavailable"
        /\ r.execution_mode = (IF r.api_count = 0
                               THEN [phase2 |-> "solo", phase4 |-> "solo"]
                               ELSE [phase2 |-> "multi", phase4 |-> "multi"])
        /\ response.probed => r.api_count = Cardinality(api_keys \cap {"claude", "gpt", "gemini", "grok"})

\* a call that probed with no backend configured and returned solo
C39_Witness ==
    /\ response.op = "EnvironmentChecker.check_environment"
    /\ response.probed
    /\ api_keys = {}
    /\ response.result.api_count = 0
    /\ response.result.execution_mode = [phase2 |-> "solo", phase4 |-> "solo"]

----------------------------------------------------------------------------
(* Properties of session creation (Spec) *)

----------------------------------------------------------------------------
(* Properties of the question bookkeeping of a session (Spec) *)

\* C35: in a session whose questions have been generated, as many answers
\* are collected as current_question_index says, the index does not exceed
\* the number of questions, the session waits for an answer only while
\* the index is below that number, and once the last answer is recorded
\* phase3_result holds the questions with one response for each.
C35_QuestionBookkeeping ==
    \A sid \in DOMAIN sessions :
        LET w == sessions[sid] IN
        Present(w.all_questions) =>
            LET questions == Val(w.all_questions)
                answers == Val(w.collected_answers)
            IN /\ Present(w.collected_answers)
               /\ Len(answers) = w.current_question_index
               /\ w.current_question_index <= Len(questions)
               /\ w.waiting_for_answer => w.current_question_index < Len(questions)
               /\ w.current_question_index = Len(questions) =>
                      /\ ~w.waiting_for_answer
                      /\ Present(w.phase3_result)
                      /\ Val(w.phase3_result).questions = questions
                      /\ Val(w.phase3_result).responses = answers
                      /\ Len(Val(w.phase3_result).responses) = Len(questions)
               /\ \A i \in 1..Len(answers) : answers[i].question_id = questions[i]

\* the last of two questions has just been answered
C35_Witness ==
    \E sid \in DOMAIN sessions :
        /\ response.op = "answer_clarification_question" /\ response.sid = sid
        /\ response.status = "completed"
        /\ Len(Val(sessions[sid].all_questions)) = 2
        /\ sessions[sid].current_question_index = 2
        /\ Len(Val(sessions[sid].phase3_result).responses) = 2
        /\ ~sessions[sid].waiting_for_answer

----------------------------------------------------------------------------
(* Properties of generated session ids (SpecAutoId) *)

\* C37 as claimed: analyze_request called without a session id creates its
\* session under an id that no existing session has, so that no stored
\* session is replaced.
C37_GeneratedIdIsNew ==
    [][ response'.op = "analyze_request" =>
           /\ response'.sid \notin DOMAIN sessions
           /\ \A sid \in DOMAIN sessions : sessions'[sid] = sessions[sid]
      ]_vars

----------------------------------------------------------------------------
(* Properties of the end of the clarification dialog (SpecDialog) *)

\* C33 as claimed: the dialog never gets stuck: in no reachable state has
\* generate_next_question just returned no further question while
\* check_clarification_complete reports the dialog as not complete.
C33_DialogNeverStuck ==
    ~ /\ dialog.pc = "asked"
      /\ IsNone(dialog.question)
      /\ IsNone(generate_next_question(dialog.phase2_data, dialog.previous_answers,
                                       dialog.iteration))
      /\ ~check_clarification_complete(dialog.previous_answers, dialog.iteration)

\* C34 as claimed: the question generate_next_question has just returned
\* has a priority no lower than that of any area still eligible at that
\* call, that is neither answered nor covered by the phase 2 context.
C34_HighestPriorityFirst ==
    (dialog.pc = "answer" /\ Present(dialog.question)) =>
        LET eligible == _identify_missing_areas_from_phase2(
                            dialog.phase2_data, AnsweredCategories(dialog.previous_answers))
        IN \A i \in 1..Len(eligible) :
               question_templates(eligible[i]).priority <= Val(dialog.question).priority

====
